---- MODULE Spec2Model ----
(***************************************************************************)
(* Model of the SCUMM-AI game session: the React component App (App.tsx)   *)
(* and the generative-service wrapper it imports from ./services/gemini    *)
(* (latest revision of the service: src/unnamed/part_004).                 *)
(*                                                                         *)
(* Strings on which the code computes (location names, inventory item      *)
(* names) are sequences of one-character strings, so that trim, case       *)
(* folding and the sanitizer's regular expressions are computed.  Strings  *)
(* that the code only stores or compares are TLA+ strings.  An optional    *)
(* JSON field is None (absent) or Some(v).                                 *)
(***************************************************************************)
EXTENDS Integers, Sequences, FiniteSets, TLC

\* ------------------------------------------------------------------------
\* Bounds of the model (not program constants)
\* ------------------------------------------------------------------------
\* Spec: calls of handleAction, calls of handleStartGame
MaxSubmits == 3

MaxStarts == 2

\* invocations of handleAction that can be in flight together
MaxSlots == 2

\* SpecSession and SpecHistory: calls of handleAction in the one session
MaxSubmitsS == 2

MaxSubmitsH == 12

\* ------------------------------------------------------------------------
\* JavaScript values
\* ------------------------------------------------------------------------
Null == "null"

None == <<>>

Some(v) == <<v>>

\* s || d for an optional string held as a sequence of characters
OrSeq(o, d) == IF o = None \/ o = Some(<<>>) THEN d ELSE o[1]

\* s || d for an optional opaque string
OrStr(o, d) == IF o = None \/ o = Some("") THEN d ELSE o[1]

\* a || d for an optional array (an empty array is truthy)
OrArr(o, d) == IF o = None THEN d ELSE o[1]

\* ------------------------------------------------------------------------
\* Characters
\* ------------------------------------------------------------------------
Lower == <<"a","b","c","d","e","f","g","h","i","j","k","l","m",
           "n","o","p","q","r","s","t","u","v","w","x","y","z">>

Upper == <<"A","B","C","D","E","F","G","H","I","J","K","L","M",
           "N","O","P","Q","R","S","T","U","V","W","X","Y","Z">>

Digits == {"0","1","2","3","4","5","6","7","8","9"}

Range(f) == {f[i] : i \in DOMAIN f}

IndexOf(c, t) == CHOOSE i \in DOMAIN t : t[i] = c

ToLowerChar(c) == IF c \in Range(Upper) THEN Lower[IndexOf(c, Upper)] ELSE c

ToUpperChar(c) == IF c \in Range(Lower) THEN Upper[IndexOf(c, Lower)] ELSE c

IsSpace(c) == c = " "

IsDigit(c) == c \in Digits

IsHex(c) == c \in Digits \cup {"a","b","c","d","e","f","A","B","C","D","E","F"}

IsWord(c) == c \in Range(Lower) \cup Range(Upper) \cup Digits \cup {"_"}

toLowerCase(s) == [i \in DOMAIN s |-> ToLowerChar(s[i])]

RECURSIVE TrimStart(_)
TrimStart(s) == IF s # <<>> /\ IsSpace(Head(s)) THEN TrimStart(Tail(s)) ELSE s

RECURSIVE TrimEnd(_)
TrimEnd(s) ==
  IF s # <<>> /\ IsSpace(s[Len(s)]) THEN TrimEnd(SubSeq(s, 1, Len(s) - 1)) ELSE s

\* the action as typed: no whitespace is removed
trim_AsTyped(s) == s

\* String.prototype.trim
trim(s) == TrimEnd(TrimStart(s))

\* the key without the trim
normalizeLocKey_NoTrim(location) == toLowerCase(location)

\* App.tsx:54
normalizeLocKey(location) == toLowerCase(trim(location))

\* ------------------------------------------------------------------------
\* sanitizeInventory (App.tsx:20-51), one regular expression at a time
\* ------------------------------------------------------------------------
\* .replace(/_/g, ' ')
ReplaceUnderscores(s) == [i \in DOMAIN s |-> IF s[i] = "_" THEN " " ELSE s[i]]

\* number of leading characters of s that satisfy the class test
RECURSIVE RunLen(_, _)
RunLen(s, kind) ==
  IF s = <<>> THEN 0
  ELSE LET c == Head(s)
           in == CASE kind = "space" -> IsSpace(c)
                   [] kind = "digit" -> IsDigit(c)
                   [] kind = "hex"   -> IsHex(c)
                   [] kind = "word"  -> IsWord(c)
       IN  IF in THEN 1 + RunLen(Tail(s), kind) ELSE 0

Drop(s, n) == SubSeq(s, n + 1, Len(s))

Take(s, n) == SubSeq(s, 1, n)

StartsWithCI(s, w) ==
  /\ Len(s) >= Len(w)
  /\ \A i \in DOMAIN w : ToLowerChar(s[i]) = ToLowerChar(w[i])

\* does /-\s*ERROR/i match at the head of s (the tail \s*.*$ always matches:
\* the modelled alphabet has no line terminator)
ErrorTailAt(s) ==
  /\ s # <<>>
  /\ Head(s) = "-"
  /\ StartsWithCI(Drop(Tail(s), RunLen(Tail(s), "space")), <<"E","R","R","O","R">>)

\* .replace(/\s*-\s*ERROR\s*.*$/i, ''): the leftmost match starts at the run
\* of whitespace before the first hyphen that is followed by ERROR
RECURSIVE StripErrorTail(_)
StripErrorTail(s) ==
  IF s = <<>> THEN s
  ELSE LET sp == RunLen(s, "space")
       IN  IF ErrorTailAt(Drop(s, sp)) THEN <<>>
           ELSE <<Head(s)>> \o StripErrorTail(Tail(s))

\* .replace(/\b[a-f0-9]{8,}\b/gi, ''): a maximal run of word characters is
\* removed when all of it is hexadecimal and it has 8 characters or more
RECURSIVE StripHex(_)
StripHex(s) ==
  IF s = <<>> THEN s
  ELSE IF IsWord(Head(s))
       THEN LET w == RunLen(s, "word")
                h == RunLen(s, "hex")
            IN  IF h = w /\ w >= 8 THEN StripHex(Drop(s, w))
                ELSE Take(s, w) \o StripHex(Drop(s, w))
       ELSE <<Head(s)>> \o StripHex(Tail(s))

\* length of the match of /x86|x64|v\d+(\.\d+)?/i at the head of s, 0 if none
VersionMatchLen(s) ==
  IF StartsWithCI(s, <<"x","8","6">>) \/ StartsWithCI(s, <<"x","6","4">>) THEN 3
  ELSE IF s # <<>> /\ ToLowerChar(Head(s)) = "v" /\ RunLen(Tail(s), "digit") > 0
       THEN LET d    == RunLen(Tail(s), "digit")
                rest == Drop(s, 1 + d)
            IN  IF rest # <<>> /\ Head(rest) = "." /\ RunLen(Tail(rest), "digit") > 0
                THEN 1 + d + 1 + RunLen(Tail(rest), "digit")
                ELSE 1 + d
       ELSE 0

\* .replace(/x86|x64|v\d+(\.\d+)?/gi, ''): one left-to-right pass
RECURSIVE StripVersions(_)
StripVersions(s) ==
  IF s = <<>> THEN s
  ELSE LET m == VersionMatchLen(s)
       IN  IF m > 0 THEN StripVersions(Drop(s, m))
           ELSE <<Head(s)>> \o StripVersions(Tail(s))

\* .replace(/\s+/g, ' ')
RECURSIVE CollapseSpaces(_)
CollapseSpaces(s) ==
  IF s = <<>> THEN s
  ELSE IF IsSpace(Head(s))
       THEN <<" ">> \o CollapseSpaces(Drop(s, RunLen(s, "space")))
       ELSE <<Head(s)>> \o CollapseSpaces(Tail(s))

Capitalize(s) == IF Len(s) > 0 THEN <<ToUpperChar(Head(s))>> \o Tail(s) ELSE s

MaxNameLen == 22

TruncLen == 20

Truncate(s) == IF Len(s) > MaxNameLen THEN Take(s, TruncLen) \o <<".", ".">> ELSE s

ObjetoRaro == <<"O","b","j","e","t","o"," ","R","a","r","o">>

DescripcionMisteriosa == "Un objeto tan misterioso..."

\* the cleaning without the removal of hex-like tokens
cleanName_KeepsHex(name) ==
  LET c1 == trim(CollapseSpaces(StripVersions(
              StripErrorTail(ReplaceUnderscores(name)))))
      c3 == Truncate(Capitalize(c1))
  IN  IF c3 = <<>> THEN ObjetoRaro ELSE c3

cleanName(name) ==
  LET c1 == trim(CollapseSpaces(StripVersions(StripHex(
              StripErrorTail(ReplaceUnderscores(name))))))
      c3 == Truncate(Capitalize(c1))
  IN  IF c3 = <<>> THEN ObjetoRaro ELSE c3

\* item.name.replace(...) throws a TypeError when the item has no name
SanitizeThrows(items) == \E i \in DOMAIN items : items[i].name = None

\* items is the array itself (the caller has applied `|| []` or `|| prev`)
sanitizeInventory(items) ==
  [i \in DOMAIN items |->
     [name        |-> cleanName(items[i].name[1]),
      description |-> OrStr(items[i].description, DescripcionMisteriosa)]]


\* ------------------------------------------------------------------------
\* Constants of the program
\* ------------------------------------------------------------------------
\* App.tsx:12 "Bilbao, Casco Viejo" (abbreviated)
DEFAULT_LOCATION == <<"B","i","l","b","a","o">>

\* App.tsx:13
DEFAULT_STYLE == "Pixel Art Retro Monkey Island Style"

\* App.tsx:222: if (newHistory.length > 20) newHistory.splice(0, 5)
HistoryLimit == 20

PruneBlock == 5

\* part_004:59 callWithRetry(fn, retries = 3, delay = 500)
DefaultRetries == 3

DefaultDelay == 500

\* part_004:315 "Retry twice max for images"
ImageRetries == 2

\* App.tsx:163
ANALIZANDO == "ANALIZANDO ACCION..."

\* App.tsx:191 and App.tsx:202
GENERANDO == "GENERANDO ESCENA..."

ACTUALIZANDO == "ACTUALIZANDO VISUALES..."

\* part_004:259
GlitchNarrative == <<"La realidad parpadea. Intenta esa accion de nuevo.">>

\* App.tsx:251
OverloadNarrative == <<"El sistema se ha sobrecargado momentaneamente. Intenta otra accion.">>

\* part_004:182
RebootNarrative == <<"El sistema se ha reiniciado tras una inestabilidad cuantica. Estas en el punto de inicio.">>

\* part_004:194
ComienzaNarrative == <<"Comienza la aventura...">>

\* ------------------------------------------------------------------------
\* Inputs: what the player types and what the generative service returns
\* ------------------------------------------------------------------------
LocA == <<"A"," ","b">>

LocAVariant == <<" ","a"," ","B"," ">>

LocB == <<"C">>

StartLocations == {LocA, <<>>}

Actions == {<<"L">>, <<" ">>, <<>>}

Images == {"img1", "img2"}

DirtyItem == [name        |-> Some(<<"K","e","y","_","v","2","_","a","1","b","2","c","3","d","4">>),
              description |-> Some("d1")]

MapItem == [name |-> Some(<<"m","a","p">>), description |-> None]

NamelessItem == [name |-> None, description |-> Some("d2")]

\* a name whose cleaned form still holds a version token: the replace of
\* App.tsx:28 turns "xx8686" into "x86"
NestedItem == [name |-> Some(<<"x","x","8","6","8","6">>), description |-> Some("d3")]

\* a decoded reply: every field of the schema may be absent
Doc(narrative, location, visualPrompt, inventory, availableExits, visualChanged) ==
  [narrative      |-> narrative,
   location       |-> location,
   visualPrompt   |-> visualPrompt,
   inventory      |-> inventory,
   availableExits |-> availableExits,
   visualChanged  |-> visualChanged]

EmptyDoc == Doc(None, None, None, None, None, None)

FullDoc(l, vc) ==
  Doc(Some(<<"n1">>), Some(l), Some(<<"vp1">>), Some(<<DirtyItem, MapItem, NestedItem>>),
      Some(<<"N">>), Some(vc))

FullDocs == {FullDoc(LocA, FALSE), FullDoc(LocAVariant, TRUE), FullDoc(LocB, TRUE)}

NamelessDoc ==
  Doc(Some(<<"n1">>), Some(LocA), Some(<<"vp1">>), Some(<<NamelessItem>>),
      Some(<<"N">>), Some(TRUE))

PartialDocs == {EmptyDoc, NamelessDoc}

Docs == FullDocs \cup PartialDocs

\* outcomes of one ai.models.generateContent call for text: a reply that
\* decodes to a document, a reply that tryParseJSON cannot decode (null),
\* a transient server error (503/500), any other error
TextOutcomes ==
  {[kind |-> "doc", doc |-> d] : d \in Docs}
    \cup {[kind |-> k, doc |-> EmptyDoc] : k \in {"undecodable", "transient", "fatal"}}

\* outcomes of one call of the image model: image data, a transient server
\* error, and "nodata" for a reply without image data (part_004:318) or any
\* other error, which both end the attempt
ImageOutcomes ==
  {[kind |-> "image", data |-> i] : i \in Images}
    \cup {[kind |-> k, data |-> ""] : k \in {"nodata", "transient"}}

TextOutcome(kind) == [kind |-> kind, doc |-> EmptyDoc]

DocOutcome(d) == [kind |-> "doc", doc |-> d]

\* SpecSession: the outcomes drawn at world initialization, in a turn and
\* for an image
InitOutcomes == TextOutcomes

GameOutcomes == TextOutcomes

SceneOutcomes == ImageOutcomes

\* Spec (sessions that are left and started again): fewer outcomes
InitOutcomesR == {DocOutcome(FullDoc(LocA, FALSE)), TextOutcome("undecodable")}

GameOutcomesR == {DocOutcome(FullDoc(LocB, TRUE)), TextOutcome("undecodable"),
                  TextOutcome("fatal")}

SceneOutcomesR == {[kind |-> "image", data |-> "img1"], [kind |-> "nodata", data |-> ""]}

\* SpecHistory (long sessions): a reply that stays in place or an error;
\* every image request is answered with an image
GameOutcomesH == {DocOutcome(FullDoc(LocA, FALSE)), TextOutcome("fatal")}

\* ------------------------------------------------------------------------
\* part_004: mapParsedResponse and the fallback responses
\* ------------------------------------------------------------------------
SceneOf(startLocation) == <<"Scene of ">> \o startLocation

\* the reply passed on without a default for the location
mapParsedResponse_RawLocation(parsed, settings) ==
  [narrative      |-> OrSeq(parsed.narrative, ComienzaNarrative),
   location       |-> OrSeq(parsed.location, <<>>),
   visualPrompt   |-> OrSeq(parsed.visualPrompt, SceneOf(settings.startLocation)),
   inventory      |-> OrArr(parsed.inventory, <<>>),
   availableExits |-> OrArr(parsed.availableExits, <<>>),
   visualChanged  |-> TRUE]

\* part_004:193-201
mapParsedResponse(parsed, settings) ==
  [narrative      |-> OrSeq(parsed.narrative, ComienzaNarrative),
   location       |-> OrSeq(parsed.location, settings.startLocation),
   visualPrompt   |-> OrSeq(parsed.visualPrompt, SceneOf(settings.startLocation)),
   inventory      |-> OrArr(parsed.inventory, <<>>),
   availableExits |-> OrArr(parsed.availableExits, <<>>),
   visualChanged  |-> TRUE]

\* the state keeps sanitized items; as a response they are plain items again
AsItems(inventory) ==
  [i \in DOMAIN inventory |->
     [name |-> Some(inventory[i].name), description |-> Some(inventory[i].description)]]

\* part_004:257-266 "Soft Error (keep game running)"
SoftErrorResponse(currentState) ==
  [narrative      |-> GlitchNarrative,
   location       |-> currentState.location,
   visualPrompt   |-> currentState.visualDescription,
   inventory      |-> AsItems(currentState.inventory),
   availableExits |-> currentState.availableExits,
   visualChanged  |-> FALSE]

\* part_004:180-189 "ULTIMATE FALLBACK"
UltimateFallback(settings) ==
  [narrative      |-> RebootNarrative,
   location       |-> settings.startLocation,
   visualPrompt   |-> <<"A pixel art scene of ">> \o settings.startLocation,
   inventory      |-> <<>>,
   availableExits |-> <<>>,
   visualChanged  |-> TRUE]

NoResponse == UltimateFallback([startLocation |-> <<>>, artStyle |-> ""])

\* every failure retried while retries remain
ShouldRetry_AnyError(kind, retries) == retries > 0

\* part_004:63: is the failed call retried
ShouldRetry(kind, retries) == retries > 0 /\ kind = "transient"


\* ------------------------------------------------------------------------
\* State
\* ------------------------------------------------------------------------
VARIABLES
  gameState,       \* useState<GameState> (App.tsx:84)
  isGameStarted,   \* App.tsx:58
  isInitializing,  \* App.tsx:59
  init,            \* the invocation of handleStartGame, if one is running
  turns,           \* the invocations of handleAction: slot -> invocation
  crashed,         \* an error thrown while rendering has unmounted the tree
  nSubmits,        \* number of calls of handleAction so far
  nStarts,         \* number of calls of handleStartGame so far
  cw,              \* a call of callWithRetry(fn, retries, delay) on its own
  rp,              \* a reply on its way through cleanJsonOutput and tryParseJSON
  ev               \* an evaluation of normalizeLocKey or sanitizeInventory on its own

appVars == <<gameState, isGameStarted, isInitializing, init, turns, crashed,
             nSubmits, nStarts>>

vars == <<gameState, isGameStarted, isInitializing, init, turns, crashed,
          nSubmits, nStarts, cw, rp, ev>>

Slots == 1..MaxSlots

\* App.tsx:84-101
InitialGameState ==
  [settings          |-> [startLocation |-> DEFAULT_LOCATION, artStyle |-> DEFAULT_STYLE],
   location          |-> <<>>,
   narrative         |-> <<>>,
   inventory         |-> <<>>,
   availableExits    |-> <<>>,
   visualDescription |-> <<>>,
   imageUrl          |-> Null,
   loadingStatus     |-> Null,
   history           |-> <<>>,
   knownLocations    |-> <<>>]

\* an invocation that has an image request out from its start
FreeTurn_ImageFirst ==
  [pc          |-> "free",
   action      |-> <<>>,
   snap        |-> InitialGameState,
   session     |-> 0,
   call        |-> 0,
   retries     |-> 0,
   delay       |-> 0,
   response    |-> NoResponse,
   locationKey |-> <<>>,
   attempt     |-> 0,
   imgReqs     |-> <<[ref |-> "null", attempt |-> 1]>>,
   outcome     |-> "none"]

\* an invocation of handleAction: its position (pc), the action, the
\* gameState captured by the useCallback closure (snap), the session it was
\* accepted in, the number of the call that started it, the state of
\* callWithRetry and of generateSceneImage; a slot
\* whose invocation has returned is free again and keeps how it ended
FreeTurn ==
  [pc          |-> "free",
   action      |-> <<>>,
   snap        |-> InitialGameState,
   session     |-> 0,
   call        |-> 0,
   retries     |-> 0,
   delay       |-> 0,
   response    |-> NoResponse,
   locationKey |-> <<>>,
   attempt     |-> 0,
   imgReqs     |-> <<>>,
   outcome     |-> "none"]

\* an invocation of handleStartGame
IdleInit ==
  [pc          |-> "idle",
   settings    |-> InitialGameState.settings,
   retries     |-> 0,
   delay       |-> 0,
   tiers       |-> <<>>,
   proOutcome  |-> [kind |-> "none", doc |-> EmptyDoc],
   world       |-> NoResponse,
   attempt     |-> 0,
   imgReqs     |-> <<>>,
   outcome     |-> "none"]

\* a call of callWithRetry (part_004:59-70): where it is (pc), its current
\* arguments, the arguments it was first called with, the number of times
\* fn was invoked, the delays waited, and how it ended
NoCall ==
  [pc |-> "none", retries |-> 0, delay |-> 0, retries0 |-> 0, delay0 |-> 0,
   calls |-> 0, waits |-> <<>>, result |-> "none", error |-> "none"]

\* a reply of the text model (part_004:16-56, 246-249): where it is (stage),
\* the text the model wrote (full), the text as it stands, the position it
\* was cut at, the position at which its first field ends and what
\* tryParseJSON returned
NoReply ==
  [stage |-> "none", full |-> <<>>, text |-> <<>>, cut |-> 0, first |-> 0,
   result |-> [null |-> TRUE, val |-> [t |-> "null", v |-> <<>>], attempt |-> 4]]

\* an evaluation of a helper of App.tsx: the function, where the evaluation
\* is (stage), the argument (a), a second argument or the kind of the first
\* (b) and the values returned
NoEval ==
  [fn |-> "none", stage |-> "none", a |-> <<>>, b |-> <<>>,
   outA |-> <<>>, outB |-> <<>>, again |-> <<>>]

\* the state of the component after construction
AppInit ==
  /\ gameState = InitialGameState
  /\ isGameStarted = FALSE
  /\ isInitializing = FALSE
  /\ init = IdleInit
  /\ turns = [t \in Slots |-> FreeTurn]
  /\ crashed = FALSE
  /\ nSubmits = 0
  /\ nStarts = 0

Init == AppInit /\ cw = NoCall /\ rp = NoReply /\ ev = NoEval

\* ------------------------------------------------------------------------
\* generateSceneImage (part_004:274-341): attempt 1 with the reference image,
\* attempt 2 with the simplified prompt and no reference, then ""
\* ------------------------------------------------------------------------
\* `if (refImage)`: null, undefined and "" add no inlineData part
RefOf(imageUrl) == IF imageUrl = Null \/ imageUrl = "" THEN Null ELSE imageUrl

ImgRequest(ref, attempt) == [ref |-> IF attempt = 1 THEN RefOf(ref) ELSE Null, attempt |-> attempt]

\* the reference image of the invocation is the one of its first request
FirstRef(imgReqs) == imgReqs[1].ref

\* one reply of the image model: the next position of generateSceneImage
ImageStep(attempt, retries, imgReqs, out) ==
  IF out.kind = "image"
  THEN [done |-> TRUE, url |-> out.data, attempt |-> attempt, retries |-> retries,
        imgReqs |-> imgReqs]
  ELSE IF ShouldRetry(out.kind, retries)
  THEN [done |-> FALSE, url |-> "", attempt |-> attempt, retries |-> retries - 1,
        imgReqs |-> Append(imgReqs, ImgRequest(FirstRef(imgReqs), attempt))]
  ELSE IF attempt = 1
  THEN [done |-> FALSE, url |-> "", attempt |-> 2, retries |-> ImageRetries,
        imgReqs |-> Append(imgReqs, ImgRequest(Null, 2))]
  ELSE [done |-> TRUE, url |-> "", attempt |-> attempt, retries |-> retries,
        imgReqs |-> imgReqs]

\* ------------------------------------------------------------------------
\* handleStartGame (App.tsx:104-155) with generateInitialGameWorld
\* (part_004:118-191)
\* ------------------------------------------------------------------------
Desconocido == <<"D","e","s","c","o","n","o","c","i","d","o">>

StartKey == <<"s","t","a","r","t">>

UnknownKey == <<"u","n","k","n","o","w","n">>

\* x || d for a string that is present
JsOr(x, d) == IF x = <<>> THEN d ELSE x

\* x || '' for an image url
ImgOrEmpty(url) == IF url = Null THEN "" ELSE url

\* the first cache entry is filed under the location as the reply spells it
StartedState_RawKey(newSettings, initialWorld, imageBase64) ==
  [settings          |-> newSettings,
   location          |-> JsOr(initialWorld.location, Desconocido),
   narrative         |-> initialWorld.narrative,
   inventory         |-> sanitizeInventory(initialWorld.inventory),
   availableExits    |-> initialWorld.availableExits,
   visualDescription |-> initialWorld.visualPrompt,
   imageUrl          |-> imageBase64,
   loadingStatus     |-> Null,
   history           |-> <<[role |-> "model", content |-> initialWorld.narrative]>>,
   knownLocations    |->
     [k \in {JsOr(initialWorld.location, StartKey)} |->
        [imageUrl |-> imageBase64, visualPrompt |-> initialWorld.visualPrompt]]]

\* App.tsx:129-145
StartedState(newSettings, initialWorld, imageBase64) ==
  [settings          |-> newSettings,
   location          |-> JsOr(initialWorld.location, Desconocido),
   narrative         |-> initialWorld.narrative,
   inventory         |-> sanitizeInventory(initialWorld.inventory),
   availableExits    |-> initialWorld.availableExits,
   visualDescription |-> initialWorld.visualPrompt,
   imageUrl          |-> imageBase64,
   loadingStatus     |-> Null,
   history           |-> <<[role |-> "model", content |-> initialWorld.narrative]>>,
   knownLocations    |->
     [k \in {normalizeLocKey(JsOr(initialWorld.location, StartKey))} |->
        [imageUrl |-> imageBase64, visualPrompt |-> initialWorld.visualPrompt]]]

\* the click on INICIAR AVENTURA (App.tsx:301, disabled while initializing)
StartGame(inputLocation) ==
  /\ ~crashed
  /\ UNCHANGED <<cw, rp, ev>>
  /\ ~isGameStarted
  /\ ~isInitializing
  /\ nStarts' = nStarts + 1
  /\ IF inputLocation = <<>>
     THEN \* App.tsx:105
          /\ init' = [IdleInit EXCEPT !.outcome = "ignored"]
          /\ UNCHANGED <<gameState, isGameStarted, isInitializing, turns, crashed, nSubmits>>
     ELSE /\ isInitializing' = TRUE
          /\ init' = [IdleInit EXCEPT
                        !.pc = "pro",
                        !.settings = [startLocation |-> inputLocation, artStyle |-> DEFAULT_STYLE],
                        !.retries = DefaultRetries,
                        !.delay = DefaultDelay,
                        !.tiers = <<"pro">>]
          /\ UNCHANGED <<gameState, isGameStarted, turns, crashed, nSubmits>>

\* the world is known: generateSceneImage is called without a reference
RenderWorld(world) ==
  [init EXCEPT !.pc = "image", !.world = world, !.attempt = 1,
               !.retries = ImageRetries, !.delay = DefaultDelay,
               !.imgReqs = <<ImgRequest(Null, 1)>>]

\* is the reply of a tier accepted (part_004:161, part_004:174)
TierAccepts(out) == out.kind = "doc"

\* a reply of the high-quality tier (part_004:154-167)
ProReply(out) ==
  /\ init.pc = "pro"
  /\ UNCHANGED <<cw, rp, ev>>
  /\ IF ShouldRetry(out.kind, init.retries)
     THEN init' = [init EXCEPT !.retries = @ - 1, !.delay = @ * 2]
     ELSE IF TierAccepts(out)
     THEN init' = [RenderWorld(mapParsedResponse(out.doc, init.settings))
                     EXCEPT !.proOutcome = out]
     ELSE init' = [init EXCEPT !.pc = "flash", !.proOutcome = out,
                               !.retries = DefaultRetries, !.delay = DefaultDelay,
                               !.tiers = Append(@, "flash")]
  /\ UNCHANGED <<gameState, isGameStarted, isInitializing, turns, crashed, nSubmits, nStarts>>

\* a reply of the fast tier (part_004:168-190)
FlashReply(out) ==
  /\ init.pc = "flash"
  /\ UNCHANGED <<cw, rp, ev>>
  /\ IF ShouldRetry(out.kind, init.retries)
     THEN init' = [init EXCEPT !.retries = @ - 1, !.delay = @ * 2]
     ELSE IF TierAccepts(out)
     THEN init' = RenderWorld(mapParsedResponse(out.doc, init.settings))
     ELSE init' = RenderWorld(UltimateFallback(init.settings))
  /\ UNCHANGED <<gameState, isGameStarted, isInitializing, turns, crashed, nSubmits, nStarts>>

\* a reply of the image model to handleStartGame; with the image in hand
\* the state is replaced (App.tsx:129-147), or the error thrown by
\* sanitizeInventory is caught and alerted (App.tsx:148-150)
StartImageReply(out) ==
  /\ init.pc = "image"
  /\ UNCHANGED <<cw, rp, ev>>
  /\ LET st == ImageStep(init.attempt, init.retries, init.imgReqs, out)
     IN  IF ~st.done
         THEN /\ init' = [init EXCEPT !.attempt = st.attempt, !.retries = st.retries,
                                      !.imgReqs = st.imgReqs]
              /\ UNCHANGED <<gameState, isGameStarted, isInitializing>>
         ELSE IF SanitizeThrows(init.world.inventory)
         THEN /\ init' = [IdleInit EXCEPT !.outcome = "alert"]
              /\ isInitializing' = FALSE
              /\ UNCHANGED <<gameState, isGameStarted>>
         ELSE /\ init' = [IdleInit EXCEPT !.outcome = "started"]
              /\ gameState' = StartedState(init.settings, init.world, st.url)
              /\ isGameStarted' = TRUE
              /\ isInitializing' = FALSE
  /\ UNCHANGED <<turns, crashed, nSubmits, nStarts>>

\* the SALIR button (App.tsx:346)
Exit ==
  /\ ~crashed
  /\ UNCHANGED <<cw, rp, ev>>
  /\ isGameStarted
  /\ isGameStarted' = FALSE
  /\ isInitializing' = FALSE
  /\ UNCHANGED <<gameState, init, turns, crashed, nSubmits, nStarts>>


\* ------------------------------------------------------------------------
\* handleAction (App.tsx:157-254) with generateGameResponse
\* (part_004:203-272)
\* ------------------------------------------------------------------------
InFlight(t) == turns[t].pc \in {"game", "image"}

Returned(outcome) == [FreeTurn EXCEPT !.outcome = outcome]

\* the gate without the loadingStatus test
Rejects_BlankOnly(state, action) == trim(action) = <<>>

\* App.tsx:158
Rejects(state, action) == state.loadingStatus # Null \/ trim(action) = <<>>

\* the pruning that cuts the newest entries instead of the oldest
PushHistory_CutNewest(history, entry) ==
  LET newHistory == Append(history, entry)
  IN  IF Len(newHistory) > HistoryLimit THEN Take(newHistory, Len(newHistory) - PruneBlock)
      ELSE newHistory

\* App.tsx:221-222
PushHistory(history, entry) ==
  LET newHistory == Append(history, entry)
  IN  IF Len(newHistory) > HistoryLimit THEN Drop(newHistory, PruneBlock) ELSE newHistory

\* the cache restarted with the one entry of the turn
UpsertLocation_OnlyNew(knownLocations, locationKey, entry) ==
  [k \in {locationKey} |-> entry]

\* App.tsx:224-230
UpsertLocation(knownLocations, locationKey, entry) ==
  [k \in DOMAIN knownLocations \cup {locationKey} |->
     IF k = locationKey THEN entry ELSE knownLocations[k]]

\* a commit that starts the cache again from the entry of the turn
Committed_FreshCache(prev, response, locationKey, newImageUrl) ==
  [prev EXCEPT
     !.location          = JsOr(response.location, prev.location),
     !.narrative         = response.narrative,
     !.inventory         = sanitizeInventory(response.inventory),
     !.availableExits    = response.availableExits,
     !.visualDescription = response.visualPrompt,
     !.imageUrl          = newImageUrl,
     !.history           = PushHistory(prev.history,
                                       [role |-> "model", content |-> response.narrative]),
     !.knownLocations    = UpsertLocation(<<>>, locationKey,
                             [imageUrl     |-> ImgOrEmpty(newImageUrl),
                              visualPrompt |-> response.visualPrompt]),
     !.loadingStatus     = Null]

\* the updater of App.tsx:220-244 applied to the state prev; the inventory
\* and the exits of a response are arrays (part_004:197-199, 262-264), so
\* the `||` defaults of App.tsx:236-237 are never taken
Committed(prev, response, locationKey, newImageUrl) ==
  [prev EXCEPT
     !.location          = JsOr(response.location, prev.location),
     !.narrative         = response.narrative,
     !.inventory         = sanitizeInventory(response.inventory),
     !.availableExits    = response.availableExits,
     !.visualDescription = response.visualPrompt,
     !.imageUrl          = newImageUrl,
     !.history           = PushHistory(prev.history,
                                       [role |-> "model", content |-> response.narrative]),
     !.knownLocations    = UpsertLocation(prev.knownLocations, locationKey,
                             [imageUrl     |-> ImgOrEmpty(newImageUrl),
                              visualPrompt |-> response.visualPrompt]),
     !.loadingStatus     = Null]

\* an acceptance that leaves the history alone
Accepted_NoEntry(prev, action) == [prev EXCEPT !.loadingStatus = ANALIZANDO]

\* the updater of App.tsx:161-165 (optimistic update)
Accepted(prev, action) ==
  [prev EXCEPT !.loadingStatus = ANALIZANDO,
               !.history = Append(@, [role |-> "user", content |-> action])]

\* a loading message that also blanks the picture
Loading_ClearsImage(prev, status) ==
  [prev EXCEPT !.loadingStatus = status, !.imageUrl = Null]

\* the updaters of App.tsx:187, App.tsx:191 and App.tsx:202
Loading(prev, status) == [prev EXCEPT !.loadingStatus = status]

\* a failure handler that also drops the picture and the inventory
Failed_Reset(prev) ==
  [prev EXCEPT !.loadingStatus = Null, !.narrative = OverloadNarrative,
               !.imageUrl = Null, !.inventory = <<>>]

\* the updater of App.tsx:248-252
Failed(prev) == [prev EXCEPT !.loadingStatus = Null, !.narrative = OverloadNarrative]

\* a commit that puts the default settings back
Commit_DefaultSettings(t, response, locationKey, newImageUrl) ==
  IF SanitizeThrows(response.inventory)
  THEN /\ crashed' = TRUE
       /\ turns' = [turns EXCEPT ![t] = Returned("crash")]
       /\ UNCHANGED gameState
  ELSE /\ gameState' = [Committed(gameState, response, locationKey, newImageUrl)
                       EXCEPT !.settings = InitialGameState.settings]
       /\ turns' = [turns EXCEPT ![t] = Returned("commit")]
       /\ UNCHANGED crashed

\* the final setGameState of invocation t: the updater runs while React
\* renders, outside the try block, so an error thrown by sanitizeInventory
\* is not caught and unmounts the component tree
Commit(t, response, locationKey, newImageUrl) ==
  IF SanitizeThrows(response.inventory)
  THEN /\ crashed' = TRUE
       /\ turns' = [turns EXCEPT ![t] = Returned("crash")]
       /\ UNCHANGED gameState
  ELSE /\ gameState' = Committed(gameState, response, locationKey, newImageUrl)
       /\ turns' = [turns EXCEPT ![t] = Returned("commit")]
       /\ UNCHANGED crashed

\* the response generateGameResponse returns for a reply (part_004:252-266)
ResponseOf(out, currentState) ==
  IF out.kind = "doc" THEN mapParsedResponse(out.doc, currentState.settings)
  ELSE SoftErrorResponse(currentState)

\* the visual logic without the lookup in knownLocations
VisualCase_NoCache(snap, response) ==
  IF response.location # snap.location THEN "miss"
  ELSE IF response.visualChanged = TRUE THEN "edit" ELSE "keep"

\* which branch of the visual logic is taken (App.tsx:177-218)
VisualCase(snap, response) ==
  LET locationKey == normalizeLocKey(JsOr(response.location, UnknownKey))
  IN  IF response.location # snap.location
      THEN IF locationKey \in DOMAIN snap.knownLocations THEN "hit" ELSE "miss"
      ELSE IF response.visualChanged = TRUE THEN "edit" ELSE "keep"

\* a call of handleAction(action) (App.tsx:157-174): rejected as a no-op or
\* accepted, with the optimistic update and the call of the gameplay model
HandleAction(action) ==
  /\ ~crashed
  /\ UNCHANGED <<cw, rp, ev>>
  /\ isGameStarted
  /\ nSubmits' = nSubmits + 1
  /\ IF Rejects(gameState, action)
     THEN UNCHANGED <<gameState, turns>>
     ELSE /\ \E t \in Slots : ~InFlight(t)
          /\ LET t == CHOOSE s \in Slots : ~InFlight(s) /\ \A u \in Slots : ~InFlight(u) => s <= u
             IN  turns' = [turns EXCEPT ![t] = [FreeTurn EXCEPT
                             !.pc = "game", !.action = action, !.snap = gameState,
                             !.session = nStarts, !.call = nSubmits + 1,
                             !.retries = DefaultRetries, !.delay = DefaultDelay]]
          /\ gameState' = Accepted(gameState, action)
  /\ UNCHANGED <<isGameStarted, isInitializing, init, crashed, nStarts>>

\* a reply of the gameplay model to invocation t, or its failure
GameReply(t, out) ==
  /\ ~crashed
  /\ UNCHANGED <<cw, rp, ev>>
  /\ turns[t].pc = "game"
  /\ LET snap == turns[t].snap
     IN  IF ShouldRetry(out.kind, turns[t].retries)
         THEN /\ turns' = [turns EXCEPT ![t] = [@ EXCEPT !.retries = @ - 1, !.delay = @ * 2]]
              /\ UNCHANGED <<gameState, crashed>>
         ELSE IF out.kind \in {"transient", "fatal"}
         THEN \* part_004:268-271 rethrows, App.tsx:246-253 catches
              /\ gameState' = Failed(gameState)
              /\ turns' = [turns EXCEPT ![t] = Returned("fail")]
              /\ UNCHANGED crashed
         ELSE LET response    == ResponseOf(out, snap)
                  locationKey == normalizeLocKey(JsOr(response.location, UnknownKey))
                  case        == VisualCase(snap, response)
              IN  \* on a hit the message of App.tsx:187 and the commit are queued
                  \* without an await between them and applied in one render
                  CASE case = "hit" ->
                         Commit(t, response, locationKey,
                                snap.knownLocations[locationKey].imageUrl)
                    [] case = "keep" ->
                         Commit(t, response, locationKey, snap.imageUrl)
                    [] case \in {"miss", "edit"} ->
                         /\ gameState' = Loading(gameState,
                                            IF case = "miss" THEN GENERANDO ELSE ACTUALIZANDO)
                         /\ turns' = [turns EXCEPT ![t] = [@ EXCEPT
                               !.pc = "image", !.response = response,
                               !.locationKey = locationKey, !.attempt = 1,
                               !.retries = ImageRetries, !.delay = DefaultDelay,
                               !.imgReqs = <<ImgRequest(
                                    IF case = "edit" THEN snap.imageUrl ELSE Null, 1)>>]]
                         /\ UNCHANGED crashed
  /\ UNCHANGED <<isGameStarted, isInitializing, init, nSubmits, nStarts>>

\* a reply of the image model to invocation t; generateSceneImage returns
\* an image or "", and the turn commits (App.tsx:192-244)
ImageReply(t, out) ==
  /\ ~crashed
  /\ UNCHANGED <<cw, rp, ev>>
  /\ turns[t].pc = "image"
  /\ LET st == ImageStep(turns[t].attempt, turns[t].retries, turns[t].imgReqs, out)
     IN  IF ~st.done
         THEN /\ turns' = [turns EXCEPT ![t] = [@ EXCEPT
                             !.attempt = st.attempt, !.retries = st.retries,
                             !.imgReqs = st.imgReqs]]
              /\ UNCHANGED <<gameState, crashed>>
         ELSE Commit(t, turns[t].response, turns[t].locationKey, st.url)
  /\ UNCHANGED <<isGameStarted, isInitializing, init, nSubmits, nStarts>>

\* ------------------------------------------------------------------------
\* Specification
\* ------------------------------------------------------------------------
\* the whole application, sessions left and started again
Next ==
  \/ nStarts < MaxStarts /\ \E l \in StartLocations : StartGame(l)
  \/ \E out \in InitOutcomesR : ProReply(out)
  \/ \E out \in InitOutcomesR : FlashReply(out)
  \/ \E out \in SceneOutcomesR : StartImageReply(out)
  \/ Exit
  \/ nSubmits < MaxSubmits /\ \E a \in Actions : HandleAction(a)
  \/ \E t \in Slots, out \in GameOutcomesR : GameReply(t, out)
  \/ \E t \in Slots, out \in SceneOutcomesR : ImageReply(t, out)

Spec == Init /\ [][Next]_vars

\* one session, every outcome of the service
NextSession ==
  \/ nStarts < 1 /\ \E l \in StartLocations : StartGame(l)
  \/ \E out \in InitOutcomes : ProReply(out)
  \/ \E out \in InitOutcomes : FlashReply(out)
  \/ \E out \in SceneOutcomes : StartImageReply(out)
  \/ nSubmits < MaxSubmitsS /\ \E a \in Actions : HandleAction(a)
  \/ \E t \in Slots, out \in GameOutcomes : GameReply(t, out)
  \/ \E t \in Slots, out \in SceneOutcomes : ImageReply(t, out)

SpecSession == Init /\ [][NextSession]_vars

\* one long session
NextHistory ==
  \/ nStarts < 1 /\ StartGame(LocA)
  \/ ProReply(DocOutcome(FullDoc(LocA, FALSE)))
  \/ StartImageReply([kind |-> "image", data |-> "img1"])
  \/ nSubmits < MaxSubmitsH /\ HandleAction(<<"L">>)
  \/ \E t \in Slots, out \in GameOutcomesH : GameReply(t, out)
  \/ \E t \in Slots : ImageReply(t, [kind |-> "image", data |-> "img1"])

SpecHistory == Init /\ [][NextHistory]_vars


\* ------------------------------------------------------------------------
\* Properties
\* ------------------------------------------------------------------------
NoneInFlight == \A t \in Slots : ~InFlight(t)

\* the invocation in slot t returns in this step
Returns(t) == InFlight(t) /\ ~(turns'[t].pc \in {"game", "image"})

Commits(t) == Returns(t) /\ turns'[t].outcome = "commit"

\* C1 (busy gate): a call of handleAction made while loadingStatus is set
\* changes nothing: no history entry, no invocation started (hence no call
\* of the service), no field of the state or of the user interface changed.
C1_BusyGate ==
  [][(nSubmits' # nSubmits /\ gameState.loadingStatus # Null)
       => UNCHANGED <<gameState, turns, init, isGameStarted, isInitializing, crashed>>]_vars

\* a call was made after the invocation in flight had been accepted
C1_Witness ==
  \E t \in Slots : InFlight(t) /\ turns[t].call < nSubmits /\ gameState.loadingStatus # Null

\* C2 (mutual exclusion): no two invocations accepted in the same session
\* are in flight together.
C2_MutualExclusion ==
  \A t1, t2 \in Slots :
    (InFlight(t1) /\ InFlight(t2) /\ turns[t1].session = turns[t2].session) => t1 = t2

\* C3 (no stuck marker), in the form a finite run refutes: once every
\* accepted action has run to its end, loadingStatus is absent.
C3_NoStuckMarker == NoneInFlight => gameState.loadingStatus = Null

C5_CurrentLocationCached ==
  gameState # InitialGameState
    => normalizeLocKey(gameState.location) \in DOMAIN gameState.knownLocations

\* a turn has committed a reply without a location (and without a narrative)
C5_Witness ==
  /\ isGameStarted
  /\ gameState.narrative = ComienzaNarrative
  /\ Len(gameState.history) >= 3
  /\ normalizeLocKey(gameState.location) \in DOMAIN gameState.knownLocations

\* C6 (history bound): history never has more than 20 entries.
C6_HistoryBound == Len(gameState.history) <= HistoryLimit

\* C7 (pruning): a step changes the history of a running session only by
\* appending one entry and, when that step is a commit that makes more than
\* 20 entries, dropping the 5 oldest: what survives is a suffix of the old
\* history, in its order, followed by the new entry; no other step drops
\* anything; the entry a turn appends when it is accepted is its user
\* entry and the entry it appends when it commits is its narrator entry,
\* so the user entry precedes the narrator entry.
C7_PruneFront ==
  [][/\ (gameState'.history # gameState.history /\ ~(isGameStarted' /\ ~isGameStarted))
          => \E k \in {0, PruneBlock} :
               /\ Len(gameState'.history) = Len(gameState.history) + 1 - k
               /\ k = PruneBlock <=> /\ Len(gameState.history) + 1 > HistoryLimit
                                     /\ \E t \in Slots : Commits(t)
               /\ \A i \in 1..(Len(gameState.history) - k) :
                    gameState'.history[i] = gameState.history[i + k]
     /\ \A t \in Slots :
          LET h == gameState'.history
          IN  /\ (~InFlight(t) /\ turns'[t].pc = "game")
                   => /\ Len(h) = Len(gameState.history) + 1
                      /\ h[Len(h)] = [role |-> "user", content |-> turns'[t].action]
              /\ (Commits(t) /\ ~crashed')
                   => /\ Len(h) >= 1
                      /\ h[Len(h)] = [role |-> "model", content |-> gameState'.narrative]]_vars

\* ten turns have committed and the tenth has pruned the history
C7_Witness ==
  /\ nSubmits = 10
  /\ NoneInFlight
  /\ Len(gameState.history) = HistoryLimit + 1 - PruneBlock

\* C8 (the session always starts): handleStartGame never ends in the alert.
C8_StartAlwaysSucceeds == init.outcome # "alert"

\* did the high-quality attempt fail in the sense of C9
ProFailed(out) == out.kind # "doc" \/ out.doc.narrative \in {None, Some(<<>>)}

\* C9 (tier fallback): the high-quality tier is attempted first, and when the
\* world is known the fast tier has been attempted if and only if the
\* high-quality attempt threw, was undecodable or lacked the narrative.
C9_TierFallback ==
  init.pc = "image"
    => /\ init.tiers[1] = "pro"
       /\ (\E i \in DOMAIN init.tiers : init.tiers[i] = "flash") <=> ProFailed(init.proOutcome)

StateFields(st) ==
  <<st.settings, st.location, st.narrative, st.inventory, st.availableExits,
    st.visualDescription, st.imageUrl, st.knownLocations>>

\* C10 (no partial state): a step of an invocation that leaves it in flight
\* (its acceptance, a retry, the loading messages, the image replies)
\* changes no field other than loadingStatus and history, never clears
\* loadingStatus, and changes history only at the acceptance; the step in
\* which it returns clears loadingStatus, unless the component tree is lost.
C10_NoPartialState ==
  [][\A t \in Slots :
       /\ (turns'[t] # turns[t] /\ turns'[t].pc \in {"game", "image"})
            => /\ StateFields(gameState') = StateFields(gameState)
               /\ gameState'.loadingStatus # gameState.loadingStatus
                    => gameState'.loadingStatus # Null
               /\ InFlight(t) => gameState'.history = gameState.history
       /\ Returns(t) => (gameState'.loadingStatus = Null \/ crashed')]_vars

\* an invocation is waiting for its image after the loading message
C10_Witness ==
  \E t \in Slots : turns[t].pc = "image" /\ gameState.loadingStatus \in {GENERANDO, ACTUALIZANDO}

\* the step in which invocation t receives the decoded document d from the
\* gameplay model
DocReply(t, d) == turns[t].pc = "game" /\ GameReply(t, DocOutcome(d))

\* C11 (dialogue/observation turn): a turn whose decoded reply reports the
\* location the turn started from and visualChanged = false commits at
\* once, without an image request, the image the turn started with.
C11_QuietTurnKeepsImage ==
  [][\A t \in Slots : \A d \in Docs :
       (/\ d.location = Some(turns[t].snap.location)
        /\ d.visualChanged = Some(FALSE)
        /\ DocReply(t, d))
       => /\ Commits(t)
          /\ gameState'.imageUrl = turns[t].snap.imageUrl]_vars

\* the normalized key under which handleAction files the document d
\* (part_004:195, App.tsx:179)
KeyOfDoc(t, d) ==
  normalizeLocKey(JsOr(mapParsedResponse(d, turns[t].snap.settings).location, UnknownKey))

\* invocation t is on the branch of a location that was not cached when
\* the turn began
OnMiss(t) ==
  /\ turns[t].pc = "image"
  /\ turns[t].locationKey \notin DOMAIN turns[t].snap.knownLocations

\* C12 (new location): a decoded reply whose normalized key is not in
\* knownLocations makes the turn call generateSceneImage once, starting
\* with one request without a reference image; no request the call sends
\* later carries a reference; the commit adds an entry under the new key
\* and keeps every entry knownLocations had.
C12_NewLocation ==
  [][\A t \in Slots :
       /\ \A d \in Docs :
            (DocReply(t, d) /\ KeyOfDoc(t, d) \notin DOMAIN turns[t].snap.knownLocations)
            => /\ turns'[t].pc = "image"
               /\ turns'[t].locationKey = KeyOfDoc(t, d)
               /\ turns'[t].imgReqs = <<[ref |-> Null, attempt |-> 1]>>
       /\ (OnMiss(t) /\ turns'[t].pc = "image")
            => \A i \in DOMAIN turns'[t].imgReqs : turns'[t].imgReqs[i].ref = Null
       /\ (OnMiss(t) /\ Commits(t))
            => /\ turns[t].locationKey \in DOMAIN gameState'.knownLocations
               /\ turns[t].locationKey \notin DOMAIN gameState.knownLocations
               /\ \A k \in DOMAIN gameState.knownLocations :
                    /\ k \in DOMAIN gameState'.knownLocations
                    /\ gameState'.knownLocations[k] = gameState.knownLocations[k]]_vars

\* a turn has moved the session to a second location, now cached next to
\* the first
C12_Witness ==
  /\ NoneInFlight
  /\ gameState.location = LocB
  /\ DOMAIN gameState.knownLocations = {normalizeLocKey(LocA), normalizeLocKey(LocB)}

\* the fields a soft failure is to leave alone
SceneFields(st) ==
  <<st.location, st.inventory, st.availableExits, st.visualDescription, st.imageUrl>>

\* C13 (soft failure on an undecodable reply): the step in which a turn
\* receives a reply that cannot be decoded commits at once, without an
\* image request: location, inventory, availableExits, visualDescription
\* and imageUrl are as before, the narrative is the try-again message and
\* loadingStatus is absent.
C13_SoftFailure ==
  [][\A t \in Slots :
       (turns[t].pc = "game" /\ GameReply(t, TextOutcome("undecodable")))
       => /\ Commits(t)
          /\ SceneFields(gameState') = SceneFields(gameState)
          /\ gameState'.narrative = GlitchNarrative
          /\ gameState'.loadingStatus = Null]_vars

\* the decoded document lacks a field the schema requires (part_004:115)
LacksField(d) ==
  None \in {d.narrative, d.location, d.visualPrompt, d.inventory, d.availableExits,
            d.visualChanged}

\* C14 (malformed reply with missing fields): a decoded reply that lacks a
\* required field makes the turn a soft failure: either the reply step
\* commits the try-again message with location, inventory, availableExits,
\* visualDescription and imageUrl as before, or the response the turn goes
\* on to commit carries the try-again message and the current location.
C14_MissingFieldsSoftFailure ==
  [][\A t \in Slots : \A d \in Docs :
       (LacksField(d) /\ DocReply(t, d))
       => \/ /\ Commits(t)
             /\ gameState'.narrative = GlitchNarrative
             /\ SceneFields(gameState') = SceneFields(gameState)
          \/ /\ turns'[t].pc = "image"
             /\ turns'[t].response.narrative = GlitchNarrative
             /\ turns'[t].response.location = gameState.location]_vars

\* the gameplay call of invocation t fails for good with an error of kind
\* k: callWithRetry rethrows it (part_004:63-68)
CallFails(t, k) ==
  /\ turns[t].pc = "game"
  /\ k \in {"transient", "fatal"}
  /\ ~ShouldRetry(k, turns[t].retries)
  /\ GameReply(t, TextOutcome(k))

\* C15 (unrecoverable turn failure): the step in which the gameplay call
\* fails for good (a non-transient error, or a transient one with the
\* retry budget used up) ends the turn with loadingStatus absent and the
\* fixed failure narrative; location, inventory, availableExits,
\* visualDescription, imageUrl and knownLocations are as before.
C15_TurnFailure ==
  [][\A t \in Slots : \A k \in {"transient", "fatal"} :
       CallFails(t, k)
       => /\ Returns(t)
          /\ turns'[t].outcome = "fail"
          /\ gameState'.loadingStatus = Null
          /\ gameState'.narrative = OverloadNarrative
          /\ SceneFields(gameState') = SceneFields(gameState)
          /\ gameState'.knownLocations = gameState.knownLocations
          /\ gameState'.settings = gameState.settings]_vars

\* a turn has failed and the session shows the failure narrative over the
\* picture it had
C15_Witness ==
  /\ \E t \in Slots : turns[t].outcome = "fail"
  /\ gameState.narrative = OverloadNarrative
  /\ gameState.loadingStatus = Null
  /\ gameState.imageUrl \in Images
  /\ gameState.inventory # <<>>

\* the replies with which a call of the image model fails
ImageFailures == {o \in ImageOutcomes : o.kind # "image"}

\* the commit that follows the failure of the last image attempt of
\* invocation t
CommitsWithoutImage(t) ==
  /\ turns[t].pc = "image"
  /\ Commits(t)
  /\ \E o \in ImageFailures : ImageReply(t, o)

\* C16 (image failure never loses the picture): a turn whose image
\* attempts have all failed commits its narrative, location and inventory,
\* and the committed imageUrl is the image shown before the turn when
\* there was one.
C16_ImageFailureKeepsPicture ==
  [][\A t \in Slots :
       CommitsWithoutImage(t)
       => /\ gameState'.narrative = turns[t].response.narrative
          /\ gameState'.location = JsOr(turns[t].response.location, gameState.location)
          /\ gameState'.inventory = sanitizeInventory(turns[t].response.inventory)
          /\ gameState.imageUrl \in Images => gameState'.imageUrl = gameState.imageUrl]_vars

\* ------------------------------------------------------------------------
\* callWithRetry (part_004:59-70) on its own
\* ------------------------------------------------------------------------
\* the largest retry budget a call is started with
MaxRetries == 3

RetryBudgets == 0..MaxRetries

Delays == {1, DefaultDelay}

\* what fn can throw: the fields part_004:63 looks at (0: no such field)
Errors ==
  [status : {0, 400, 500, 503}, code : {0, 500, 503}, has503 : BOOLEAN]

\* part_004:63: status 503, code 503, status 500, or "503" in the message
IsTransient(e) == e.status = 503 \/ e.code = 503 \/ e.status = 500 \/ e.has503

KindOf(e) == IF IsTransient(e) THEN "transient" ELSE "fatal"

NewCall(retries, delay) ==
  [NoCall EXCEPT !.pc = "call", !.retries = retries, !.delay = delay,
                 !.retries0 = retries, !.delay0 = delay, !.calls = 1]

InitRetry ==
  /\ AppInit
  /\ rp = NoReply
  /\ ev = NoEval
  /\ \E retries \in RetryBudgets, delay \in Delays : cw = NewCall(retries, delay)

\* the same delay again
NextDelay_Same(delay) == delay

\* part_004:66
NextDelay(delay) == delay * 2

\* fn returns a value (part_004:61)
FnReturns ==
  /\ cw.pc = "call"
  /\ cw' = [cw EXCEPT !.pc = "done", !.result = "value"]
  /\ UNCHANGED <<appVars, rp, ev>>

\* fn throws e (part_004:62-68): the timer is set, or e is thrown on
FnThrows(e) ==
  /\ cw.pc = "call"
  /\ IF ShouldRetry(KindOf(e), cw.retries)
     THEN cw' = [cw EXCEPT !.pc = "wait", !.waits = Append(@, cw.delay)]
     ELSE cw' = [cw EXCEPT !.pc = "done", !.result = "error", !.error = e]
  /\ UNCHANGED <<appVars, rp, ev>>

\* the timer fires (part_004:65-66): callWithRetry(fn, retries - 1, delay * 2)
TimerFires ==
  /\ cw.pc = "wait"
  /\ cw' = [cw EXCEPT !.pc = "call", !.retries = @ - 1, !.delay = NextDelay(@),
                      !.calls = @ + 1]
  /\ UNCHANGED <<appVars, rp, ev>>

NextRetry ==
  \/ FnReturns
  \/ \E e \in Errors : FnThrows(e)
  \/ TimerFires

SpecRetry == InitRetry /\ [][NextRetry]_vars

\* C17 (retry schedule): fn is invoked at most retries + 1 times and once
\* more than there were waits; the k-th wait is delay * 2^(k-1); a
\* transient failure with retries left is followed by a wait of the current
\* delay and then by one more invocation with the retries decremented and
\* the delay doubled; a success ends the call with its value; a transient
\* failure with no retries left ends it with that failure; nothing
\* happens after the end.
C17_RetrySchedule ==
  [][/\ cw'.calls <= cw'.retries0 + 1
     /\ cw'.pc = "wait" => cw'.calls = Len(cw'.waits)
     /\ cw'.pc \in {"call", "done"} => cw'.calls = Len(cw'.waits) + 1
     /\ \A k \in DOMAIN cw'.waits : cw'.waits[k] = cw'.delay0 * 2^(k - 1)
     /\ \A e \in Errors :
          (IsTransient(e) /\ FnThrows(e))
          => IF cw.retries > 0
             THEN cw' = [cw EXCEPT !.pc = "wait", !.waits = Append(@, cw.delay)]
             ELSE cw' = [cw EXCEPT !.pc = "done", !.result = "error", !.error = e]
     /\ cw.pc = "wait"
          => cw' = [cw EXCEPT !.pc = "call", !.retries = @ - 1, !.delay = 2 * @,
                              !.calls = @ + 1]
     /\ FnReturns => (cw'.result = "value" /\ cw'.calls = cw.calls /\ cw'.waits = cw.waits)
     /\ cw.pc = "done" => cw' = cw]_vars

\* a call started with three retries has used them all and thrown the last
\* transient failure on
C17_Witness ==
  /\ cw.pc = "done"
  /\ cw.result = "error"
  /\ cw.retries0 = 3
  /\ cw.calls = 4
  /\ Len(cw.waits) = 3
  /\ IsTransient(cw.error)

HasUnderscore(s) == \E i \in DOMAIN s : s[i] = "_"

HasHexToken(s) == StripHex(s) # s

HasVersionToken(s) == StripVersions(s) # s

NameIsClean(s) ==
  /\ s # <<>>
  /\ Len(s) <= MaxNameLen
  /\ ~HasUnderscore(s)
  /\ ~HasHexToken(s)
  /\ ~HasVersionToken(s)

\* C19 (sanitized inventory): in every state every inventory item name is
\* non-empty, at most 22 characters long, and holds no underscore, no
\* hex-like token of 8 or more characters and no version token.
C19_SanitizedInventory ==
  \A i \in DOMAIN gameState.inventory : NameIsClean(gameState.inventory[i].name)

\* ------------------------------------------------------------------------
\* cleanJsonOutput and tryParseJSON (part_004:16-56) on their own
\* ------------------------------------------------------------------------
Quote == "\""

Backslash == "\\"

\* the names of the fields of gameSchema (part_004:83-116)
FieldKey ==
  [narrative |-> <<"n", "a", "r", "r", "a", "t", "i", "v", "e">>,
   location |-> <<"l", "o", "c", "a", "t", "i", "o", "n">>,
   visualPrompt |-> <<"v", "i", "s", "u", "a", "l", "P", "r", "o", "m", "p", "t">>,
   inventory |-> <<"i", "n", "v", "e", "n", "t", "o", "r", "y">>,
   keyElements |-> <<"k", "e", "y", "E", "l", "e", "m", "e", "n", "t", "s">>,
   availableExits |-> <<"a", "v", "a", "i", "l", "a", "b", "l", "e", "E", "x", "i", "t", "s">>,
   visualChanged |-> <<"v", "i", "s", "u", "a", "l", "C", "h", "a", "n", "g", "e", "d">>,
   name |-> <<"n", "a", "m", "e">>,
   description |-> <<"d", "e", "s", "c", "r", "i", "p", "t", "i", "o", "n">>]

\* JSON values: a tag and the payload
JStr(s) == [t |-> "str", v |-> s]

JBool(b) == [t |-> "bool", v |-> b]

JArr(items) == [t |-> "arr", v |-> items]

\* an object is the list of its members [k |-> key, v |-> value] in order
JObj(members) == [t |-> "obj", v |-> members]

JNull == [t |-> "null", v |-> <<>>]

Member(key, value) == [k |-> key, v |-> value]

RECURSIVE Concat(_)
Concat(ss) == IF ss = <<>> THEN <<>> ELSE Head(ss) \o Concat(Tail(ss))

RECURSIVE Join(_)
Join(ss) ==
  IF ss = <<>> THEN <<>>
  ELSE IF Len(ss) = 1 THEN Head(ss)
  ELSE Head(ss) \o <<",">> \o Join(Tail(ss))

EscapeChar(c) == IF c \in {Quote, Backslash} THEN <<Backslash, c>> ELSE <<c>>

QuoteString(s) == <<Quote>> \o Concat([i \in DOMAIN s |-> EscapeChar(s[i])]) \o <<Quote>>

\* JSON.stringify: the serialization of a value without white space
RECURSIVE stringify(_)
stringify(x) ==
  CASE x.t = "str"  -> QuoteString(x.v)
    [] x.t = "bool" -> IF x.v THEN <<"t","r","u","e">> ELSE <<"f","a","l","s","e">>
    [] x.t = "null" -> <<"n","u","l","l">>
    [] x.t = "arr"  -> <<"[">> \o Join([i \in DOMAIN x.v |-> stringify(x.v[i])]) \o <<"]">>
    [] x.t = "obj"  ->
         <<"{">> \o Join([i \in DOMAIN x.v |->
                            QuoteString(x.v[i].k) \o <<":">> \o stringify(x.v[i].v)])
                 \o <<"}">>

\* JSON.parse: a recursive-descent reading of the text; every reader
\* returns whether it succeeded, the value read and the next position.
\* Numbers and \u escapes are not read: no text below contains them.
ParseFail == [ok |-> FALSE, val |-> JNull, next |-> 0]

ParseOk(val, next) == [ok |-> TRUE, val |-> val, next |-> next]

RECURSIVE SkipWs(_, _)
SkipWs(s, i) == IF i <= Len(s) /\ IsSpace(s[i]) THEN SkipWs(s, i + 1) ELSE i

Escapable == {Quote, Backslash, "/", "b", "f", "n", "r", "t"}

\* the character an escape stands for ("^" for the control characters)
Unescape(c) == IF c \in {Quote, Backslash, "/"} THEN c ELSE "^"

RECURSIVE ScanString(_, _, _)
ScanString(s, j, acc) ==
  IF j > Len(s) THEN ParseFail
  ELSE IF s[j] = Quote THEN ParseOk(JStr(acc), j + 1)
  ELSE IF s[j] = Backslash
  THEN IF j + 1 <= Len(s) /\ s[j + 1] \in Escapable
       THEN ScanString(s, j + 2, Append(acc, Unescape(s[j + 1])))
       ELSE ParseFail
  ELSE ScanString(s, j + 1, Append(acc, s[j]))

StartsAt(s, i, w) == i + Len(w) - 1 <= Len(s) /\ SubSeq(s, i, i + Len(w) - 1) = w

ParseLiteral(s, i) ==
  IF StartsAt(s, i, <<"t","r","u","e">>) THEN ParseOk(JBool(TRUE), i + 4)
  ELSE IF StartsAt(s, i, <<"f","a","l","s","e">>) THEN ParseOk(JBool(FALSE), i + 5)
  ELSE IF StartsAt(s, i, <<"n","u","l","l">>) THEN ParseOk(JNull, i + 4)
  ELSE ParseFail

RECURSIVE ParseValue(_, _)
RECURSIVE ArrayItems(_, _, _)
RECURSIVE ObjectMembers(_, _, _)

ArrayItems(s, i, acc) ==
  LET r == ParseValue(s, i)
  IN  IF ~r.ok THEN ParseFail
      ELSE LET k == SkipWs(s, r.next)
           IN  IF k > Len(s) THEN ParseFail
               ELSE IF s[k] = "," THEN ArrayItems(s, k + 1, Append(acc, r.val))
               ELSE IF s[k] = "]" THEN ParseOk(JArr(Append(acc, r.val)), k + 1)
               ELSE ParseFail

ParseArray(s, i) ==
  LET k == SkipWs(s, i + 1)
  IN  IF k > Len(s) THEN ParseFail
      ELSE IF s[k] = "]" THEN ParseOk(JArr(<<>>), k + 1)
      ELSE ArrayItems(s, k, <<>>)

ObjectMembers(s, i, acc) ==
  LET k0 == SkipWs(s, i)
  IN  IF k0 > Len(s) \/ s[k0] # Quote THEN ParseFail
      ELSE LET key == ScanString(s, k0 + 1, <<>>)
           IN  IF ~key.ok THEN ParseFail
               ELSE LET c == SkipWs(s, key.next)
                    IN  IF c > Len(s) \/ s[c] # ":" THEN ParseFail
                        ELSE LET r == ParseValue(s, c + 1)
                             IN  IF ~r.ok THEN ParseFail
                                 ELSE LET k == SkipWs(s, r.next)
                                          m == Append(acc, Member(key.val.v, r.val))
                                      IN  IF k > Len(s) THEN ParseFail
                                          ELSE IF s[k] = "," THEN ObjectMembers(s, k + 1, m)
                                          ELSE IF s[k] = "}" THEN ParseOk(JObj(m), k + 1)
                                          ELSE ParseFail

ParseObject(s, i) ==
  LET k == SkipWs(s, i + 1)
  IN  IF k > Len(s) THEN ParseFail
      ELSE IF s[k] = "}" THEN ParseOk(JObj(<<>>), k + 1)
      ELSE ObjectMembers(s, k, <<>>)

ParseValue(s, i0) ==
  LET i == SkipWs(s, i0)
  IN  IF i > Len(s) THEN ParseFail
      ELSE IF s[i] = Quote THEN ScanString(s, i + 1, <<>>)
      ELSE IF s[i] = "{" THEN ParseObject(s, i)
      ELSE IF s[i] = "[" THEN ParseArray(s, i)
      ELSE ParseLiteral(s, i)

\* JSON.parse(text): a value followed by nothing but white space, or a throw
JSONparse(s) ==
  LET r == ParseValue(s, 1)
  IN  IF r.ok /\ SkipWs(s, r.next) = Len(s) + 1 THEN r ELSE ParseFail

\* indexOf and lastIndexOf, counted from 1 (0: not found)
FirstIndexOf(s, c) ==
  IF \E i \in DOMAIN s : s[i] = c
  THEN CHOOSE i \in DOMAIN s : s[i] = c /\ \A j \in 1..(i - 1) : s[j] # c
  ELSE 0

LastIndexOf(s, c) ==
  IF \E i \in DOMAIN s : s[i] = c
  THEN CHOOSE i \in DOMAIN s : s[i] = c /\ \A j \in (i + 1)..Len(s) : s[j] # c
  ELSE 0

\* String.prototype.substring(a, b) with positions counted from 0: the
\* arguments are swapped when a > b
Substring(s, a, b) ==
  LET lo == IF a < b THEN a ELSE b
      hi == IF a < b THEN b ELSE a
  IN  SubSeq(s, lo + 1, hi)

\* part_004:16-25
cleanJsonOutput(text) ==
  LET cleaned    == trim(text)
      firstBrace == FirstIndexOf(cleaned, "{")
      lastBrace  == LastIndexOf(cleaned, "}")
  IN  IF firstBrace # 0 /\ lastBrace # 0
      THEN Substring(cleaned, firstBrace - 1, lastBrace)
      ELSE cleaned

\* the test of the last character is skipped: the last repair always closes
\* a string and the object
EndsWithQuote_NoTest(s) == FALSE

EndsWithQuote(s) == LET t == trim(s) IN t # <<>> /\ t[Len(t)] = Quote

\* the last repair appends an escaped quote before the closing quote
tryParseJSON_EscapedQuote(jsonString) ==
  LET direct  == JSONparse(jsonString)
      brace   == JSONparse(jsonString \o <<"}">>)
      bracket == JSONparse(jsonString \o <<"]", "}">>)
      quote   == JSONparse(jsonString \o <<Backslash, Quote, Quote, "}">>)
  IN  IF direct.ok THEN [null |-> FALSE, val |-> direct.val, attempt |-> 0]
      ELSE IF brace.ok THEN [null |-> FALSE, val |-> brace.val, attempt |-> 1]
      ELSE IF bracket.ok THEN [null |-> FALSE, val |-> bracket.val, attempt |-> 2]
      ELSE IF ~EndsWithQuote(jsonString) /\ quote.ok
      THEN [null |-> FALSE, val |-> quote.val, attempt |-> 3]
      ELSE [null |-> TRUE, val |-> JNull, attempt |-> 4]

\* part_004:28-56: the value of the first reading that succeeds and the
\* number of the reading (0: the text as it is), or null
tryParseJSON(jsonString) ==
  LET direct  == JSONparse(jsonString)
      brace   == JSONparse(jsonString \o <<"}">>)
      bracket == JSONparse(jsonString \o <<"]", "}">>)
      quote   == JSONparse(jsonString \o <<Quote, "}">>)
  IN  IF direct.ok THEN [null |-> FALSE, val |-> direct.val, attempt |-> 0]
      ELSE IF brace.ok THEN [null |-> FALSE, val |-> brace.val, attempt |-> 1]
      ELSE IF bracket.ok THEN [null |-> FALSE, val |-> bracket.val, attempt |-> 2]
      ELSE IF ~EndsWithQuote(jsonString) /\ quote.ok
      THEN [null |-> FALSE, val |-> quote.val, attempt |-> 3]
      ELSE [null |-> TRUE, val |-> JNull, attempt |-> 4]

\* documents that satisfy gameSchema (part_004:83-116): the fields in the
\* order of the schema, in alphabetical order, and in the order of the
\* schema with a quote and a brace inside the strings
RepairItem(n, d) == JObj(<<Member(FieldKey.name, JStr(<<n>>)), Member(FieldKey.description, JStr(<<d>>))>>)

RepairInventory == JArr(<<RepairItem("k", "d"), RepairItem("m", "e")>>)

RepairDocSchema ==
  JObj(<<Member(FieldKey.narrative, JStr(<<"H", "i">>)),
         Member(FieldKey.location, JStr(<<"A">>)),
         Member(FieldKey.visualPrompt, JStr(<<"v">>)),
         Member(FieldKey.inventory, RepairInventory),
         Member(FieldKey.keyElements, JArr(<<JStr(<<"a">>)>>)),
         Member(FieldKey.availableExits, JArr(<<JStr(<<"N">>), JStr(<<"S">>)>>)),
         Member(FieldKey.visualChanged, JBool(TRUE))>>)

RepairDocSorted ==
  JObj(<<Member(FieldKey.availableExits, JArr(<<JStr(<<"N">>), JStr(<<"S">>)>>)),
         Member(FieldKey.inventory, RepairInventory),
         Member(FieldKey.keyElements, JArr(<<JStr(<<"a">>)>>)),
         Member(FieldKey.location, JStr(<<"A">>)),
         Member(FieldKey.narrative, JStr(<<"H", "i">>)),
         Member(FieldKey.visualChanged, JBool(TRUE)),
         Member(FieldKey.visualPrompt, JStr(<<"v">>))>>)

RepairDocQuoted ==
  JObj(<<Member(FieldKey.narrative, JStr(<<"H", Quote, "}">>)),
         Member(FieldKey.location, JStr(<<"A", Quote>>)),
         Member(FieldKey.visualPrompt, JStr(<<"v", Backslash>>)),
         Member(FieldKey.inventory, JArr(<<>>)),
         Member(FieldKey.keyElements, JArr(<<JStr(<<"{", "a">>)>>)),
         Member(FieldKey.availableExits, JArr(<<>>)),
         Member(FieldKey.visualChanged, JBool(FALSE))>>)

\* the document of the scenario of a reply cut inside its narrative
Hello == <<"H", "e", "l", "l", "o">>

RepairDocHello == [RepairDocSchema EXCEPT !.v[1].v = JStr(Hello)]

RepairDocs == <<RepairDocSchema, RepairDocSorted, RepairDocQuoted, RepairDocHello>>

\* the position at which the first field of the serialized document ends
FirstFieldEnd(d) ==
  Len(<<"{">> \o QuoteString(d.v[1].k) \o <<":">> \o stringify(d.v[1].v))

\* the model writes its reply
InitRepair ==
  /\ AppInit
  /\ cw = NoCall
  /\ ev = NoEval
  /\ \E i \in DOMAIN RepairDocs :
       LET d == RepairDocs[i]
       IN  rp = [NoReply EXCEPT !.stage = "sent", !.full = stringify(d),
                                !.text = stringify(d), !.first = FirstFieldEnd(d)]

\* the reply arrives cut after position p (whole when p is its length)
CutReply(p) ==
  /\ rp.stage = "sent"
  /\ p \in 1..Len(rp.full)
  /\ rp' = [rp EXCEPT !.stage = "cut", !.text = Take(rp.full, p), !.cut = p]
  /\ UNCHANGED <<appVars, cw, ev>>

\* part_004:246
Clean ==
  /\ rp.stage = "cut"
  /\ rp' = [rp EXCEPT !.stage = "clean", !.text = cleanJsonOutput(rp.text)]
  /\ UNCHANGED <<appVars, cw, ev>>

\* part_004:247
Decode ==
  /\ rp.stage = "clean"
  /\ rp' = [rp EXCEPT !.stage = "parsed", !.result = tryParseJSON(rp.text)]
  /\ UNCHANGED <<appVars, cw, ev>>

NextRepair ==
  \/ \E p \in 1..Len(rp.full) : CutReply(p)
  \/ Clean
  \/ Decode

SpecRepair == InitRepair /\ [][NextRepair]_vars

HasField(x, key) == x.t = "obj" /\ \E i \in DOMAIN x.v : x.v[i].k = key

IsStringArray(x) == x.t = "arr" /\ \A i \in DOMAIN x.v : x.v[i].t = "str"

IsItemArray(x) ==
  /\ x.t = "arr"
  /\ \A i \in DOMAIN x.v :
       /\ x.v[i].t = "obj"
       /\ \A j \in DOMAIN x.v[i].v : x.v[i].v[j].v.t = "str"

\* the type gameSchema gives to each field (part_004:85-114)
FieldWellTyped(m) ==
  IF m.k \in {FieldKey.narrative, FieldKey.location, FieldKey.visualPrompt} THEN m.v.t = "str"
  ELSE IF m.k = FieldKey.inventory THEN IsItemArray(m.v)
  ELSE IF m.k \in {FieldKey.keyElements, FieldKey.availableExits} THEN IsStringArray(m.v)
  ELSE IF m.k = FieldKey.visualChanged THEN m.v.t = "bool"
  ELSE TRUE

WellTyped(x) == x.t = "obj" /\ \A i \in DOMAIN x.v : FieldWellTyped(x.v[i])

\* C20: a serialized valid document cut at any position after its first
\* complete field is repaired to a document that has the narrative field and
\* fields of the right types, or to null
C20_RepairSoundness ==
  (rp.stage = "parsed" /\ rp.cut >= rp.first) =>
    \/ rp.result.null
    \/ HasField(rp.result.val, FieldKey.narrative) /\ WellTyped(rp.result.val)

\* the raw reply {"narrative":"Hello
HelloCut == <<"{">> \o QuoteString(FieldKey.narrative) \o <<":", Quote>> \o Hello

HelloParsed == rp.stage = "parsed" /\ Take(rp.full, rp.cut) = HelloCut

FieldValue(x, key) == x.v[CHOOSE i \in DOMAIN x.v : x.v[i].k = key].v

\* C21: the reply {"narrative":"Hello, cut inside the string, is repaired to
\* a document whose narrative is a string that starts with Hello and holds
\* no quote, or to null
C21_TruncatedString ==
  HelloParsed =>
    \/ rp.result.null
    \/ /\ HasField(rp.result.val, FieldKey.narrative)
       /\ LET n == FieldValue(rp.result.val, FieldKey.narrative)
          IN  n.t = "str" /\ StartsAt(n.v, 1, Hello) /\ Quote \notin Range(n.v)

C21_Witness ==
  HelloParsed /\ ~rp.result.null /\ rp.result.attempt = 3
    /\ rp.result.val = JObj(<<Member(FieldKey.narrative, JStr(Hello))>>)

\* ------------------------------------------------------------------------
\* normalizeLocKey (App.tsx:54) on its own
\* ------------------------------------------------------------------------
MaxKeyLen == 3

MaxPad == 2

KeyChars == {" ", "a", "B", ","}

RECURSIVE StringsUpTo(_, _)
StringsUpTo(chars, n) ==
  IF n = 0 THEN {<<>>}
  ELSE LET shorter == StringsUpTo(chars, n - 1)
       IN  shorter \cup {Append(s, c) : s \in {x \in shorter : Len(x) = n - 1}, c \in chars}

\* a location name, and a second name that starts as the same name
InitNormalize ==
  /\ AppInit
  /\ cw = NoCall
  /\ rp = NoReply
  /\ \E a \in StringsUpTo(KeyChars, MaxKeyLen) :
       ev = [NoEval EXCEPT !.fn = "normalizeLocKey", !.stage = "names", !.a = a, !.b = a]

\* the second name gets the other case of one of its letters
FlipCase(i) ==
  /\ ev.fn = "normalizeLocKey" /\ ev.stage = "names"
  /\ i \in DOMAIN ev.b
  /\ ev.b[i] \in Range(Lower) \cup Range(Upper)
  /\ ev' = [ev EXCEPT !.b[i] = IF ev.b[i] \in Range(Lower)
                                THEN ToUpperChar(ev.b[i]) ELSE ToLowerChar(ev.b[i])]
  /\ UNCHANGED <<appVars, cw, rp>>

\* the second name gets a space at its start or at its end
Pad(atStart) ==
  /\ ev.fn = "normalizeLocKey" /\ ev.stage = "names"
  /\ Len(ev.b) < MaxKeyLen + MaxPad
  /\ ev' = [ev EXCEPT !.b = IF atStart THEN <<" ">> \o ev.b ELSE ev.b \o <<" ">>]
  /\ UNCHANGED <<appVars, cw, rp>>

\* the second name loses a space at its start or at its end
Unpad(atStart) ==
  /\ ev.fn = "normalizeLocKey" /\ ev.stage = "names"
  /\ ev.b # <<>>
  /\ ev.b[IF atStart THEN 1 ELSE Len(ev.b)] = " "
  /\ ev' = [ev EXCEPT !.b = IF atStart THEN Tail(ev.b) ELSE SubSeq(ev.b, 1, Len(ev.b) - 1)]
  /\ UNCHANGED <<appVars, cw, rp>>

\* both names are normalized, and the key of the first once more
Normalize ==
  /\ ev.fn = "normalizeLocKey" /\ ev.stage = "names"
  /\ ev' = [ev EXCEPT !.stage = "keys",
                      !.outA = normalizeLocKey(ev.a),
                      !.outB = normalizeLocKey(ev.b),
                      !.again = normalizeLocKey(normalizeLocKey(ev.a))]
  /\ UNCHANGED <<appVars, cw, rp>>

NextNormalize ==
  \/ \E i \in 1..(MaxKeyLen + MaxPad) : FlipCase(i)
  \/ \E atStart \in BOOLEAN : Pad(atStart)
  \/ \E atStart \in BOOLEAN : Unpad(atStart)
  \/ Normalize

SpecNormalize == InitNormalize /\ [][NextNormalize]_vars

\* C22: two location names that differ only in letter case and in leading
\* and trailing white space have the same key, and the key of a key is that key
C22_NormalizeLocKey ==
  (ev.fn = "normalizeLocKey" /\ ev.stage = "keys") =>
    ev.outA = ev.outB /\ ev.again = ev.outA

C22_Witness ==
  /\ ev.fn = "normalizeLocKey" /\ ev.stage = "keys"
  /\ ev.a = <<"a", " ", "B">> /\ ev.b = <<" ", "A", " ", "b", " ">>
  /\ ev.outB = <<"a", " ", "b">> /\ ev.again = ev.outB

\* the invocation in slot t was accepted in a session that has been left,
\* and another session is being played
FromLeftSession(t) == InFlight(t) /\ isGameStarted /\ turns[t].session # nStarts

SessionFields(st) ==
  <<st.location, st.narrative, st.inventory, st.history, st.imageUrl, st.knownLocations>>

\* C23 (session independence): a step of an invocation accepted in a
\* session that has been left changes nothing of the session being played:
\* location, narrative, inventory, history, imageUrl and knownLocations.
C23_SessionIndependence ==
  [][\A t \in Slots :
       (FromLeftSession(t) /\ turns'[t] # turns[t])
         => SessionFields(gameState') = SessionFields(gameState)]_vars

\* ------------------------------------------------------------------------
\* sanitizeInventory (App.tsx:20-51) on its own
\* ------------------------------------------------------------------------
MaxTokens == 3

\* pieces of item names: a word, a version token, a hex-like token, a token
\* that hides a version token, an error tail
NameTokens ==
  {<<"K","e","y">>, <<"v","2">>, <<"a","1","b","2","c","3","d","4">>,
   <<"x","x","8","6","8","6">>, <<"-","E","R","R","O","R">>}

RECURSIVE TokenNames(_)
TokenNames(n) ==
  IF n = 1 THEN NameTokens
  ELSE LET shorter == TokenNames(n - 1)
       IN  shorter \cup {s \o <<sep>> \o t : s \in shorter, sep \in {"_", " "}, t \in NameTokens}

\* the item lists handed to sanitizeInventory: no item, or one item whose
\* name may be absent or empty and whose description may be absent
ItemLists ==
  {<<>>} \cup
  {<<[name |-> n, description |-> d]>> :
     n \in {None, Some(<<>>)} \cup {Some(s) : s \in TokenNames(MaxTokens)},
     d \in {None, Some("d1")}}

InitSanitize ==
  /\ AppInit
  /\ cw = NoCall
  /\ rp = NoReply
  /\ \/ \E items \in ItemLists :
          ev = [NoEval EXCEPT !.fn = "sanitizeInventory", !.stage = "items",
                              !.a = items, !.b = "array"]
     \/ ev = [NoEval EXCEPT !.fn = "sanitizeInventory", !.stage = "items",
                           !.b = "undefined"]

\* sanitizeInventory(items) returns [] for no list (App.tsx:21), returns the
\* mapped list, or item.name.replace throws (App.tsx:25)
Sanitize ==
  /\ ev.fn = "sanitizeInventory" /\ ev.stage = "items"
  /\ ev' = IF ev.b = "undefined"
           THEN [ev EXCEPT !.stage = "once", !.outA = <<>>]
           ELSE IF SanitizeThrows(ev.a)
           THEN [ev EXCEPT !.stage = "threw"]
           ELSE [ev EXCEPT !.stage = "once", !.outA = sanitizeInventory(ev.a)]
  /\ UNCHANGED <<appVars, cw, rp>>

\* the list returned is sanitized once more
SanitizeAgain ==
  /\ ev.fn = "sanitizeInventory" /\ ev.stage = "once"
  /\ ev' = [ev EXCEPT !.stage = "twice", !.again = sanitizeInventory(AsItems(ev.outA))]
  /\ UNCHANGED <<appVars, cw, rp>>

NextSanitize == Sanitize \/ SanitizeAgain

SpecSanitize == InitSanitize /\ [][NextSanitize]_vars

KeyV2Hex == DirtyItem.name[1]

\* C24: the item named Key_v2_a1b2c3d4 is sanitized to Key, through
\* "Key v2 a1b2c3d4" (underscores), the same (no error tail), "Key v2 "
\* (hex-like token), "Key  " (version token), "Key" (collapse and trim),
\* then capitalization, truncation and fallback, which leave it
C24_SanitizerScenario ==
  (ev.fn = "sanitizeInventory" /\ ev.stage \in {"once", "twice"}
     /\ ev.a # <<>> /\ ev.a[1].name = Some(KeyV2Hex)) =>
    /\ ev.outA[1].name = <<"K","e","y">>
    /\ ReplaceUnderscores(KeyV2Hex)
         = <<"K","e","y"," ","v","2"," ","a","1","b","2","c","3","d","4">>
    /\ StripErrorTail(ReplaceUnderscores(KeyV2Hex)) = ReplaceUnderscores(KeyV2Hex)
    /\ StripHex(ReplaceUnderscores(KeyV2Hex)) = <<"K","e","y"," ","v","2"," ">>
    /\ StripVersions(<<"K","e","y"," ","v","2"," ">>) = <<"K","e","y"," "," ">>
    /\ trim(CollapseSpaces(<<"K","e","y"," "," ">>)) = <<"K","e","y">>

C24_Witness ==
  ev.fn = "sanitizeInventory" /\ ev.stage = "once" /\ ev.a = <<DirtyItem>>
    /\ ev.outA = <<[name |-> <<"K","e","y">>, description |-> "d1"]>>

\* the reply d reports the location the invocation in slot t started from,
\* with a visual change
InPlaceChange(t, d) ==
  /\ d.visualChanged = Some(TRUE)
  /\ mapParsedResponse(d, turns[t].snap.settings).location = turns[t].snap.location

\* the invocation in slot t is in the image calls of an in-place change
OnEdit(t) ==
  turns[t].pc = "image" /\ turns[t].response.location = turns[t].snap.location

LastReq(t) == turns'[t].imgReqs[Len(turns'[t].imgReqs)]

\* C25 (visual change in place): on a reply that reports the current
\* location with visualChanged = true the turn sends a first image request
\* that carries the current image; when the first attempt has failed the
\* next request carries no reference; and when the image calls are over the
\* turn commits the narrative, location, inventory and exits of the reply
\* and clears loadingStatus.
C25_VisualChangeInPlace ==
  [][\A t \in Slots :
       /\ \A d \in Docs :
            (DocReply(t, d) /\ InPlaceChange(t, d))
            => /\ turns'[t].pc = "image"
               /\ turns'[t].imgReqs = <<[ref |-> RefOf(gameState.imageUrl), attempt |-> 1]>>
       /\ (OnEdit(t) /\ turns[t].attempt = 1 /\ turns'[t].pc = "image" /\ turns'[t].attempt = 2)
            => LastReq(t) = [ref |-> Null, attempt |-> 2]
       /\ (OnEdit(t) /\ Returns(t))
            => /\ Commits(t)
               /\ gameState'.narrative = turns[t].response.narrative
               /\ gameState'.location = JsOr(turns[t].response.location, gameState.location)
               /\ gameState'.inventory = sanitizeInventory(turns[t].response.inventory)
               /\ gameState'.availableExits = turns[t].response.availableExits
               /\ gameState'.loadingStatus = Null]_vars

\* the reply d takes the invocation in slot t to a location of the cache
HitReply(t, d) ==
  /\ DocReply(t, d)
  /\ VisualCase(turns[t].snap, mapParsedResponse(d, turns[t].snap.settings)) = "hit"

\* C26 (cache hit reuses both cached values): a turn that commits on a
\* cache hit commits the imageUrl and, as visualDescription, the
\* visualPrompt of the cache entry, and leaves the entry as it was.
C26_HitReusesEntry ==
  [][\A t \in Slots : \A d \in Docs :
       (HitReply(t, d) /\ Commits(t))
       => LET cached == gameState.knownLocations[KeyOfDoc(t, d)]
          IN  /\ gameState'.imageUrl = cached.imageUrl
              /\ gameState'.visualDescription = cached.visualPrompt
              /\ gameState'.knownLocations[KeyOfDoc(t, d)] = cached]_vars

UserEntry(action) == [role |-> "user", content |-> action]

\* C27 (optimistic write with reconciliation): the step that accepts an
\* action appends its user entry to the history, the gameplay call still
\* outstanding; the step in which the turn fails leaves as history the
\* history the turn started from followed by that user entry.
C27_OptimisticWrite ==
  [][\A t \in Slots :
       /\ (~InFlight(t) /\ turns'[t].pc = "game")
            => /\ gameState'.history = Append(gameState.history, UserEntry(turns'[t].action))
               /\ turns'[t].snap.history = gameState.history
       /\ \A k \in {"transient", "fatal"} :
            CallFails(t, k)
            => gameState'.history
                 = Append(turns[t].snap.history, UserEntry(turns[t].action))]_vars

\* the first turn of a session has failed: the history is the opening
\* narrator entry and the user entry of the turn
C27_Witness ==
  /\ \E t \in Slots : turns[t].outcome = "fail"
  /\ nSubmits = 1
  /\ Len(gameState.history) = 2
  /\ gameState.history[1].role = "model"
  /\ gameState.history[2] = UserEntry(<<"L">>)

\* C28 (ordering within a turn): while the gameplay request of a turn is
\* outstanding the turn has issued no image request; the image requests
\* start in the step that receives and decodes the gameplay reply, and from
\* then on the gameplay request is over. The same holds for the world
\* request and the image request of handleStartGame.
C28_ImageAfterReply ==
  [][/\ \A t \in Slots :
          /\ turns'[t].pc = "game" => turns'[t].imgReqs = <<>>
          /\ (turns[t].pc # "image" /\ turns'[t].pc = "image")
               => /\ turns[t].pc = "game"
                  /\ turns'[t].response # NoResponse
                  /\ Len(turns'[t].imgReqs) = 1
          /\ turns[t].pc = "image" => turns'[t].pc # "game"
     /\ init'.pc \in {"pro", "flash"} => init'.imgReqs = <<>>
     /\ (init.pc # "image" /\ init'.pc = "image")
          => /\ init.pc \in {"pro", "flash"}
             /\ init'.world # NoResponse
             /\ Len(init'.imgReqs) = 1]_vars

\* a turn has its decoded reply and its first image request outstanding
C28_Witness ==
  \E t \in Slots :
    /\ turns[t].pc = "image"
    /\ turns[t].response.narrative = <<"n1">>
    /\ Len(turns[t].imgReqs) = 1

\* C29 (no eviction): no step of a running session, whether a turn is
\* accepted, rejected, committed, softly failed or failed, removes a key
\* from knownLocations.
C29_NoEviction ==
  [][(isGameStarted /\ isGameStarted')
       => DOMAIN gameState.knownLocations \subseteq DOMAIN gameState'.knownLocations]_vars

\* two locations are cached, and a later turn that ended in the soft
\* failure has kept both
C29_Witness ==
  /\ NoneInFlight
  /\ gameState.narrative = GlitchNarrative
  /\ DOMAIN gameState.knownLocations = {normalizeLocKey(LocA), normalizeLocKey(LocB)}

\* C30 (settings are immutable during play): the settings of the game state
\* change only in the step that starts a session; no call of handleAction
\* and no step of a turn changes them.
C30_SettingsImmutable ==
  [][/\ gameState'.settings # gameState.settings
          => init.pc = "image" /\ init'.outcome = "started" /\ gameState'.settings = init.settings
     /\ (nSubmits' # nSubmits \/ turns' # turns)
          => gameState'.settings = gameState.settings]_vars

\* a session started at a location of the player's choice has had a turn
\* commit and another fail
C30_Witness ==
  /\ gameState.settings.startLocation = LocA
  /\ gameState.narrative = OverloadNarrative
  /\ gameState.location = LocB
  /\ NoneInFlight

\* C31 (inventory replaced wholesale): a turn that commits a decoded reply
\* leaves as inventory the sanitized list of the reply, in its order; when
\* the reply carries no inventory list the inventory the state had is kept.
C31_InventoryReplaced ==
  [][\A t \in Slots :
       /\ (turns[t].pc = "image" /\ Commits(t))
            => gameState'.inventory = sanitizeInventory(turns[t].response.inventory)
       /\ \A d \in Docs :
            (DocReply(t, d) /\ Commits(t))
            => IF d.inventory = None
               THEN gameState'.inventory = gameState.inventory
               ELSE gameState'.inventory = sanitizeInventory(d.inventory[1])]_vars

\* the four readings tryParseJSON may make of a text, in the order it makes
\* them; the fourth depends on the last character that is not whitespace
RepairCandidates(s) ==
  LET t == trim(s)
  IN  << s,
         s \o <<"}">>,
         s \o <<"]", "}">>,
         IF t # <<>> /\ t[Len(t)] = Quote THEN s \o <<"}">> ELSE s \o <<Quote, "}">> >>

C33_QuoteTruncation ==
  (/\ rp.stage = "parsed"
   /\ ~JSONparse(rp.text).ok
   /\ ~JSONparse(rp.text \o <<"}">>).ok
   /\ ~JSONparse(rp.text \o <<"]", "}">>).ok
   /\ LET t == trim(rp.text) IN t # <<>> /\ t[Len(t)] = Quote)
  => LET closed == JSONparse(rp.text \o <<Quote, "}">>)
     IN  closed.ok => (~rp.result.null /\ rp.result.val = closed.val)

\* C35 (sanitizeInventory is total): for no list, the empty list and items
\* whose name is absent or empty or whose description is absent the call
\* returns, the list returned has the length of the list given, an empty
\* name becomes the placeholder label and an absent description the
\* placeholder description.
C35_SanitizeTotal ==
  (ev.fn = "sanitizeInventory" /\ ev.stage # "items") =>
    /\ ev.stage # "threw"
    /\ Len(ev.outA) = Len(ev.a)
    /\ \A i \in DOMAIN ev.a :
         /\ ev.a[i].name \in {None, Some(<<>>)} => ev.outA[i].name = ObjetoRaro
         /\ ev.a[i].description = None => ev.outA[i].description = DescripcionMisteriosa

\* C35 for the calls that return
C35_TotalWhenNamed ==
  (ev.fn = "sanitizeInventory" /\ ev.stage \in {"once", "twice"}) =>
    /\ Len(ev.outA) = Len(ev.a)
    /\ \A i \in DOMAIN ev.a :
         /\ ev.a[i].name = Some(<<>>) => ev.outA[i].name = ObjetoRaro
         /\ ev.a[i].description = None => ev.outA[i].description = DescripcionMisteriosa

\* C39 (sanitizeInventory is idempotent): sanitizing a list that
\* sanitizeInventory returned gives that list, every name and description
\* unchanged.
C39_SanitizeIdempotent ==
  (ev.fn = "sanitizeInventory" /\ ev.stage = "twice") => ev.again = ev.outA

\* C36 (blank action): a call of handleAction with an empty action or one
\* made of whitespace only changes nothing, also when no invocation is in
\* flight: no history entry, loadingStatus as it was, no invocation started
\* (hence no call of the service), no field of the state changed.
C36_BlankIsNoOp ==
  [][\A a \in Actions :
       ((\A i \in DOMAIN a : a[i] = " ") /\ HandleAction(a))
       => UNCHANGED <<gameState, turns, init, isGameStarted, isInitializing, crashed>>]_vars

\* blank actions were submitted to an idle game and nothing else was: no
\* invocation has started and loadingStatus is absent
C36_Witness ==
  /\ isGameStarted
  /\ nSubmits > 0
  /\ gameState.loadingStatus = Null
  /\ \A t \in Slots : turns[t] = FreeTurn

\* the cache entry of the location of the state holds the image and the
\* visual description of the state
Coherent(state) ==
  LET key == normalizeLocKey(state.location)
  IN  /\ key \in DOMAIN state.knownLocations
      /\ state.knownLocations[key].imageUrl = state.imageUrl
      /\ state.knownLocations[key].visualPrompt = state.visualDescription

\* C37 (cache coherence): after the start of a session and after every turn
\* that commits, the cache entry under the normalized key of the current
\* location holds exactly the imageUrl and the visualDescription of the
\* state.
C37_CacheCoherence ==
  [][/\ (~isGameStarted /\ isGameStarted') => Coherent(gameState')
     /\ \A t \in Slots : Commits(t) => Coherent(gameState')]_vars

\* a turn has committed a location that was not cached, and the entry of
\* the current location agrees with the state
C37_Witness ==
  /\ isGameStarted
  /\ \E t \in Slots : turns[t].outcome = "commit"
  /\ Cardinality(DOMAIN gameState.knownLocations) >= 2
  /\ Coherent(gameState)

C37_CoherentAtRest == (isGameStarted /\ ~crashed) => Coherent(gameState)

\* C38 (a cache hit yields a real image): no cache entry with an empty
\* imageUrl is served as a hit; a reply that leads to a location whose
\* entry holds the empty image makes the turn generate the image again.
C38_HitHasImage ==
  [][\A t \in Slots : \A d \in Docs :
       LET known == turns[t].snap.knownLocations
           key   == KeyOfDoc(t, d)
       IN  /\ HitReply(t, d) => known[key].imageUrl # ""
           /\ (/\ DocReply(t, d)
               /\ mapParsedResponse(d, turns[t].snap.settings).location # turns[t].snap.location
               /\ key \in DOMAIN known
               /\ known[key].imageUrl = "")
              => turns'[t].pc = "image"]_vars

\* ------------------------------------------------------------------------
\* The prompts of generateSceneImage (part_004:72-81, 274-341)
\* ------------------------------------------------------------------------
MaxPieces == 2

\* one String.prototype.replace with a global, case-insensitive alternation
\* of literal words: at each position the first alternative that matches is
\* replaced and the scan resumes after the match
RECURSIVE ReplaceWords(_, _, _)
ReplaceWords(s, words, by) ==
  IF s = <<>> THEN <<>>
  ELSE IF \E k \in DOMAIN words : StartsWithCI(s, words[k])
  THEN LET k == CHOOSE i \in DOMAIN words :
                  StartsWithCI(s, words[i]) /\ \A j \in 1..(i - 1) : ~StartsWithCI(s, words[j])
       IN  by \o ReplaceWords(Drop(s, Len(words[k])), words, by)
  ELSE <<Head(s)>> \o ReplaceWords(Tail(s), words, by)

\* part_004:74-79, in the order of the replaces
SafetyRules ==
  << [words |-> << <<"k","a","l","i","m","o","t","x","o">>, <<"c","a","l","i","m","o","c","h","o">> >>,
      by    |-> <<"d","a","r","k"," ","r","e","d"," ","p","o","t","i","o","n">>],
     [words |-> << <<"a","l","c","o","h","o","l">>, <<"w","i","n","e">>, <<"v","i","n","o">>,
                   <<"b","e","e","r">>, <<"c","e","r","v","e","z","a">> >>,
      by    |-> <<"b","e","v","e","r","a","g","e">>],
     [words |-> << <<"c","o","c","a"," ","c","o","l","a">>, <<"p","e","p","s","i">> >>,
      by    |-> <<"s","o","d","a">>],
     [words |-> << <<"b","r","a","n","d">>, <<"l","o","g","o">> >>,
      by    |-> <<"s","y","m","b","o","l">>],
     [words |-> << <<"b","l","o","o","d">>, <<"g","o","r","e">> >>,
      by    |-> <<"r","e","d"," ","l","i","q","u","i","d">>],
     [words |-> << <<"k","i","l","l">>, <<"m","u","r","d","e","r">>, <<"d","e","a","d">> >>,
      by    |-> <<"d","e","f","e","a","t","e","d">>] >>

RECURSIVE ApplyRules(_, _)
ApplyRules(text, n) ==
  IF n = 0 THEN text
  ELSE ReplaceWords(ApplyRules(text, n - 1), SafetyRules[n].words, SafetyRules[n].by)

\* part_004:73-80
sanitizeVisualPrompt(text) == ApplyRules(text, Len(SafetyRules))

\* el.replace(/\(.*\)/g, '') and el.replace(/\[.*\]/g, ''): the greedy match
\* runs from the first opening character to the last closing one
StripGroup(el, open, close) ==
  LET f == FirstIndexOf(el, open)
      l == LastIndexOf(el, close)
  IN  IF f > 0 /\ l > f THEN Take(el, f - 1) \o Drop(el, l) ELSE el

RECURSIVE JoinComma(_)
JoinComma(els) ==
  IF els = <<>> THEN <<>>
  ELSE IF Len(els) = 1 THEN Head(els)
  ELSE Head(els) \o <<",", " ">> \o JoinComma(Tail(els))

\* part_004:282-285
cleanElements(keyElements) ==
  LET cleaned == [i \in DOMAIN keyElements |->
                    trim(StripGroup(StripGroup(keyElements[i], "(", ")"), "[", "]"))]
      kept(el) == Len(el) > 0
  IN  JoinComma(SelectSeq(cleaned, kept))

\* part_004:289-296; the fixed phrases of the template are single elements
\* of the text, their line breaks and indentation written as one space
fullPrompt(style, sanitizedPrompt, elements) ==
  <<style, ". Retro video game screenshot. Scene: ">> \o sanitizedPrompt
    \o <<". Key Elements visible: ">> \o elements
    \o <<". NO TEXT. NO UI. NO LABELS. NO SPEECH BUBBLES. Scale: Realistic relative to character. Diegetic elements only.">>

\* part_004:330: the style and sanitizedPrompt.split('.')[0]
simplePrompt(style, sanitizedPrompt) ==
  LET dot   == FirstIndexOf(sanitizedPrompt, ".")
      first == IF dot = 0 THEN sanitizedPrompt ELSE Take(sanitizedPrompt, dot - 1)
  IN  <<style, ". ">> \o first \o <<". NO TEXT.">>

\* pieces of visual prompts: listed words in two spellings, a word that is
\* not listed, the ends of words and sentences
PromptPieces ==
  {<<"B","e","e","r">>, <<"d","e","a","d">>, <<"b","r","a","n","d">>,
   <<"h","u","t">>, <<".">>, <<" ">>}

RECURSIVE PromptsOf(_)
PromptsOf(n) ==
  IF n = 1 THEN PromptPieces
  ELSE LET shorter == PromptsOf(n - 1)
       IN  shorter \cup {s \o p : s \in shorter, p \in PromptPieces}

\* keyElements of a reply: none, one with a label in parentheses, a listed
\* word with an element that is a label only
KeyElementLists ==
  {<<>>,
   << <<"h","u","t"," ","(","N","P","C",")">> >>,
   << <<"b","e","e","r">>, <<"[","x","]">> >>}

\* a call generateSceneImage(visualPrompt, style, keyElements, reference)
InitPrompt ==
  /\ AppInit
  /\ cw = NoCall
  /\ rp = NoReply
  /\ \E p \in PromptsOf(MaxPieces), ke \in KeyElementLists, ref \in {Null} \cup Images :
       ev = [NoEval EXCEPT !.fn = "generateSceneImage", !.stage = "called", !.a = p,
                           !.b = [style |-> DEFAULT_STYLE, keyElements |-> ke, ref |-> ref]]

\* the text of the request of an attempt (part_004:323, 331)
PromptOfAttempt(attempt) ==
  LET sanitizedPrompt == sanitizeVisualPrompt(ev.a)
  IN  IF attempt = 1
      THEN fullPrompt(ev.b.style, sanitizedPrompt, cleanElements(ev.b.keyElements))
      ELSE simplePrompt(ev.b.style, sanitizedPrompt)

\* part_004:323: the first request, with the reference when there is one
GenerateScene ==
  /\ ev.fn = "generateSceneImage" /\ ev.stage = "called"
  /\ ev' = [ev EXCEPT !.stage = "sent",
                      !.outA = [done |-> FALSE, url |-> "", attempt |-> 1,
                                retries |-> ImageRetries,
                                imgReqs |-> <<ImgRequest(ev.b.ref, 1)>>],
                      !.outB = <<PromptOfAttempt(1)>>]
  /\ UNCHANGED <<appVars, cw, rp>>

\* a reply of the image model: the image is returned, the request is sent
\* again, the simplified prompt is sent, or "" is returned
SceneReply(out) ==
  /\ ev.fn = "generateSceneImage" /\ ev.stage = "sent"
  /\ LET st == ImageStep(ev.outA.attempt, ev.outA.retries, ev.outA.imgReqs, out)
     IN  ev' = [ev EXCEPT !.stage = IF st.done THEN "returned" ELSE "sent",
                          !.outA  = st,
                          !.outB  = IF Len(st.imgReqs) > Len(ev.outA.imgReqs)
                                    THEN Append(@, PromptOfAttempt(st.attempt)) ELSE @]
  /\ UNCHANGED <<appVars, cw, rp>>

NextPrompt ==
  \/ GenerateScene
  \/ \E out \in ImageOutcomes : SceneReply(out)

SpecPrompt == InitPrompt /\ [][NextPrompt]_vars

\* the prompt of an attempt composed from the arguments as they were given
RawPrompt(attempt) ==
  IF attempt = 1
  THEN fullPrompt(ev.b.style, ev.a, cleanElements(ev.b.keyElements))
  ELSE simplePrompt(ev.b.style, ev.a)

\* C34 (prompt-safety filter on every request): the text of every request
\* sent to the image model, in the attempt with the reference, in the one
\* without and in the one with the simplified prompt, is a text that went
\* through sanitizeVisualPrompt.
C34_EveryPromptFiltered ==
  ev.fn = "generateSceneImage" =>
    \A i \in DOMAIN ev.outB :
      ev.outB[i] = sanitizeVisualPrompt(RawPrompt(ev.outA.imgReqs[i].attempt))

\* C34 for the calls whose key elements hold no listed word
C34_SceneFiltered ==
  (ev.fn = "generateSceneImage"
     /\ cleanElements(ev.b.keyElements) = sanitizeVisualPrompt(cleanElements(ev.b.keyElements)))
  => \A i \in DOMAIN ev.outB :
       ev.outB[i] = sanitizeVisualPrompt(RawPrompt(ev.outA.imgReqs[i].attempt))

====
